---- MODULE Spec2Model ----
(***************************************************************************)
(* Friendship ledger and credential lifecycle of the nexo backend API.     *)
(*                                                                         *)
(* The persistent store is the three tables users, auth_local and          *)
(* friendships.  Every request handler reads the store, decides, and (when *)
(* it changed an ORM object) commits later: the handlers of concurrent     *)
(* requests interleave between the read and the commit.  A handler that    *)
(* answers without writing takes one step.                                 *)
(***************************************************************************)
EXTENDS Integers, Sequences, FiniteSets, Bags, TLC

VARIABLES
    users,        \* table users: set of rows
    auth_local,   \* table auth_local: set of rows
    friendships,  \* table friendships: set of rows
    inflight,     \* bag of handlers stopped before their db.session.commit()
    resp,         \* the response most recently returned to a caller
    streak,       \* per account: failed answers in a row to logins handled alone
    pair,         \* input and output of a bare normalize_user_pair call
    now,          \* the UTC clock, in minutes
    tokens,       \* the access tokens that callers hold
    logged_out,   \* the tokens a logout has been answered 200 for
    login_committed \* the unit of work of the latest login handled alone

vars == <<users, auth_local, friendships, inflight, resp, streak, pair,
          now, tokens, logged_out, login_committed>>

----------------------------------------------------------------------------
(* Bounds *)

\* number of request handlers that may sit between their read and their commit
MaxInFlight == 2
\* length of the id strings of the pure-function universe
IdLen == 2
\* number of distinct characters of that universe
NumChars == 3
\* cap on the observed run of failed logins
MaxStreak == 7
\* number of access tokens callers may hold at once
MaxTokens == 2
\* minutes that pass between two readings of the clock
ClockStep == 30
\* the clock stops here
MaxClock == 90

(* Program constants *)

\* login_attempts >= 5 locks the account
LockThreshold == 5
\* Config.JWT_EXPIRES_MIN, the default
JWT_EXPIRES_MIN == 60
\* Config.JWT_SECRET, the default
JWT_SECRET == "nexo-jwt-default-secret"

----------------------------------------------------------------------------
(* Identifiers.  A uuid is a string; strings are sequences of character    *)
(* codes and compare as Python compares str: lexicographically.            *)

RECURSIVE StrLess(_, _)
StrLess(a, b) ==
    IF b = <<>> THEN FALSE
    ELSE IF a = <<>> THEN TRUE
    ELSE IF Head(a) < Head(b) THEN TRUE
    ELSE IF Head(a) > Head(b) THEN FALSE
    ELSE StrLess(Tail(a), Tail(b))

Chars == 1..NumChars
Ids == [1..IdLen -> Chars]

\* the accounts of the directory and an id no account has
Ana == <<1, 2>>
Beto == <<2, 1>>
Nadie == <<2, 2>>
Empty == <<>>
\* the character ' '
Blank == 30

\* str.strip(): leading and trailing blanks removed
RECURSIVE Strip(_)
Strip(str) ==
    IF str = <<>> THEN str
    ELSE IF Head(str) = Blank THEN Strip(Tail(str))
    ELSE IF str[Len(str)] = Blank THEN Strip(SubSeq(str, 1, Len(str) - 1))
    ELSE str

NoRow == [status |-> "none"]

----------------------------------------------------------------------------
(* models/friendship.py *)

\* the unordered-pair bug: the ids are stored in the order they were given
normalize_user_pair_as_given(user_a_id, user_b_id) ==
    <<user_a_id, user_b_id, FALSE>>

normalize_user_pair(user_a_id, user_b_id) ==
    IF StrLess(user_a_id, user_b_id)
    THEN <<user_a_id, user_b_id, FALSE>>
    ELSE <<user_b_id, user_a_id, TRUE>>

\* Friendship.query.filter_by(user_low_id=, user_high_id=): the matching rows
FriendshipRows(table, low, high) ==
    {f \in table : f.user_low_id = low /\ f.user_high_id = high}

\* .first() of the query above, NoRow for None
find_friendship(table, user_a_id, user_b_id) ==
    LET n == normalize_user_pair(user_a_id, user_b_id)
        rows == FriendshipRows(table, n[1], n[2])
    IN IF rows = {} THEN NoRow ELSE CHOOSE f \in rows : TRUE

get_other_user_id(f, current_user_id) ==
    IF current_user_id = f.user_low_id THEN f.user_high_id
    ELSE IF current_user_id = f.user_high_id THEN f.user_low_id
    ELSE <<0>>   \* ValueError

is_requested_by(f, user_id) == f.requested_by_id = user_id

to_dict(f, current_user_id) ==
    [user_low_id |-> f.user_low_id,
     user_high_id |-> f.user_high_id,
     status |-> f.status,
     requested_by_id |-> f.requested_by_id,
     other_user_id |-> get_other_user_id(f, current_user_id),
     requested_by_me |-> is_requested_by(f, current_user_id)]

Statuses == {"pending", "accepted", "rejected", "removed"}

----------------------------------------------------------------------------
(* The ORM session.  A handler that changed an object holds a unit of work *)
(* until db.session.commit() writes it.                                    *)

NoWrite == [kind |-> "none"]

\* session.add(Friendship(...)): INSERT at commit
InsertOf(row) == [kind |-> "insert", row |-> row]

\* attributes set on a loaded object: UPDATE ... SET <the changed columns>
\* WHERE the primary key of the loaded object matches; a column set to the
\* value it was loaded with is not written
UpdateOf(loaded, changes) ==
    [kind |-> "update",
     loaded |-> loaded,
     set |-> [c \in {c \in DOMAIN changes : loaded[c] # changes[c]} |-> changes[c]]]

SetColumns(row, set) ==
    [col \in DOMAIN row |-> IF col \in DOMAIN set THEN set[col] ELSE row[col]]

\* a handler's outcome before commit: the response it will give and its
\* unit of work
Outcome(code, msg, friendship, write) ==
    [code |-> code, msg |-> msg, friendship |-> friendship, write |-> write]

Body(uuid) == [json |-> TRUE, uuid |-> uuid]
NoJson == [json |-> FALSE, uuid |-> Empty]

----------------------------------------------------------------------------
(* routes/friends.py: each handler up to its db.session.commit()           *)

\* the phantom-target bug: any id counts as an account
UserExists_any(uuid) == TRUE

\* User.query.filter_by(uuid=...).first() is not None
UserExists(uuid) == \E u \in users : u.uuid = uuid

\* the self-friendship bug: a request to oneself is not detected
is_self_request_never(to_user_uuid, current_user) == FALSE

\* "Validar que no sea auto-solicitud"
is_self_request(to_user_uuid, current_user) == to_user_uuid = current_user

\* the repeated-request bug: the idempotent branch is missing
send_friend_request_not_idempotent(current_user, body) ==
    LET to_user_uuid == Strip(body.uuid)
        existing == find_friendship(friendships, current_user, to_user_uuid)
        n == normalize_user_pair(current_user, to_user_uuid)
        new_friendship == [user_low_id |-> n[1], user_high_id |-> n[2],
                           status |-> "pending", requested_by_id |-> current_user]
    IN
    IF ~body.json THEN Outcome(400, "no_json", NoRow, NoWrite)
    ELSE IF to_user_uuid = Empty THEN Outcome(400, "uuid_required", NoRow, NoWrite)
    ELSE IF is_self_request(to_user_uuid, current_user)
    THEN Outcome(400, "self_request", NoRow, NoWrite)
    ELSE IF ~UserExists(to_user_uuid) THEN Outcome(404, "target_not_found", NoRow, NoWrite)
    ELSE IF existing # NoRow /\ existing.status \in {"rejected", "removed"}
    THEN Outcome(200, "request_sent", NoRow,
                 UpdateOf(existing, [status |-> "pending",
                                     requested_by_id |-> current_user]))
    ELSE IF existing # NoRow /\ existing.status = "accepted"
    THEN Outcome(200, "already_friends", to_dict(existing, current_user), NoWrite)
    ELSE IF existing # NoRow /\ existing.status = "pending"
            /\ existing.requested_by_id # current_user
    THEN Outcome(200, "reverse_pending", to_dict(existing, current_user), NoWrite)
    ELSE Outcome(201, "request_created", NoRow, InsertOf(new_friendship))

\* the stale-requester bug: a reopened row keeps its old requested_by_id
send_friend_request_keeps_requester(current_user, body) ==
    LET to_user_uuid == Strip(body.uuid)
        existing == find_friendship(friendships, current_user, to_user_uuid)
        n == normalize_user_pair(current_user, to_user_uuid)
        new_friendship == [user_low_id |-> n[1], user_high_id |-> n[2],
                           status |-> "pending", requested_by_id |-> current_user]
    IN
    IF ~body.json THEN Outcome(400, "no_json", NoRow, NoWrite)
    ELSE IF to_user_uuid = Empty THEN Outcome(400, "uuid_required", NoRow, NoWrite)
    ELSE IF is_self_request(to_user_uuid, current_user)
    THEN Outcome(400, "self_request", NoRow, NoWrite)
    ELSE IF ~UserExists(to_user_uuid) THEN Outcome(404, "target_not_found", NoRow, NoWrite)
    ELSE IF existing # NoRow /\ existing.status = "pending"
            /\ existing.requested_by_id = current_user
    THEN Outcome(200, "request_exists", to_dict(existing, current_user), NoWrite)
    ELSE IF existing # NoRow /\ existing.status \in {"rejected", "removed"}
    THEN Outcome(200, "request_sent", NoRow,
                 UpdateOf(existing, [status |-> "pending"]))
    ELSE IF existing # NoRow /\ existing.status = "accepted"
    THEN Outcome(200, "already_friends", to_dict(existing, current_user), NoWrite)
    ELSE IF existing # NoRow /\ existing.status = "pending"
            /\ existing.requested_by_id # current_user
    THEN Outcome(200, "reverse_pending", to_dict(existing, current_user), NoWrite)
    ELSE Outcome(201, "request_created", NoRow, InsertOf(new_friendship))

\* the re-request bug: an accepted row is reopened like a rejected one
send_friend_request_reopens_accepted(current_user, body) ==
    LET to_user_uuid == Strip(body.uuid)
        existing == find_friendship(friendships, current_user, to_user_uuid)
        n == normalize_user_pair(current_user, to_user_uuid)
        new_friendship == [user_low_id |-> n[1], user_high_id |-> n[2],
                           status |-> "pending", requested_by_id |-> current_user]
    IN
    IF ~body.json THEN Outcome(400, "no_json", NoRow, NoWrite)
    ELSE IF to_user_uuid = Empty THEN Outcome(400, "uuid_required", NoRow, NoWrite)
    ELSE IF is_self_request(to_user_uuid, current_user)
    THEN Outcome(400, "self_request", NoRow, NoWrite)
    ELSE IF ~UserExists(to_user_uuid) THEN Outcome(404, "target_not_found", NoRow, NoWrite)
    ELSE IF existing # NoRow /\ existing.status = "pending"
            /\ existing.requested_by_id = current_user
    THEN Outcome(200, "request_exists", to_dict(existing, current_user), NoWrite)
    ELSE IF existing # NoRow /\ existing.status \in {"rejected", "removed", "accepted"}
    THEN Outcome(200, "request_sent", NoRow,
                 UpdateOf(existing, [status |-> "pending",
                                     requested_by_id |-> current_user]))
    ELSE IF existing # NoRow /\ existing.status = "pending"
            /\ existing.requested_by_id # current_user
    THEN Outcome(200, "reverse_pending", to_dict(existing, current_user), NoWrite)
    ELSE Outcome(201, "request_created", NoRow, InsertOf(new_friendship))

send_friend_request(current_user, body) ==
    LET to_user_uuid == Strip(body.uuid)
        existing == find_friendship(friendships, current_user, to_user_uuid)
        n == normalize_user_pair(current_user, to_user_uuid)
        new_friendship == [user_low_id |-> n[1], user_high_id |-> n[2],
                           status |-> "pending", requested_by_id |-> current_user]
    IN
    IF ~body.json THEN Outcome(400, "no_json", NoRow, NoWrite)
    ELSE IF to_user_uuid = Empty THEN Outcome(400, "uuid_required", NoRow, NoWrite)
    ELSE IF is_self_request(to_user_uuid, current_user)
    THEN Outcome(400, "self_request", NoRow, NoWrite)
    ELSE IF ~UserExists(to_user_uuid) THEN Outcome(404, "target_not_found", NoRow, NoWrite)
    ELSE IF existing # NoRow /\ existing.status = "pending"
            /\ existing.requested_by_id = current_user
    THEN Outcome(200, "request_exists", to_dict(existing, current_user), NoWrite)
    ELSE IF existing # NoRow /\ existing.status \in {"rejected", "removed"}
    THEN Outcome(200, "request_sent", NoRow,
                 UpdateOf(existing, [status |-> "pending",
                                     requested_by_id |-> current_user]))
    ELSE IF existing # NoRow /\ existing.status = "accepted"
    THEN Outcome(200, "already_friends", to_dict(existing, current_user), NoWrite)
    ELSE IF existing # NoRow /\ existing.status = "pending"
            /\ existing.requested_by_id # current_user
    THEN Outcome(200, "reverse_pending", to_dict(existing, current_user), NoWrite)
    ELSE Outcome(201, "request_created", NoRow, InsertOf(new_friendship))

\* the self-accept bug: the receiver check is missing
accept_friend_request_no_receiver_check(current_user, body) ==
    LET user_uuid == Strip(body.uuid)
        friendship == find_friendship(friendships, current_user, user_uuid)
    IN
    IF ~body.json THEN Outcome(400, "no_json", NoRow, NoWrite)
    ELSE IF user_uuid = Empty THEN Outcome(400, "uuid_required", NoRow, NoWrite)
    ELSE IF friendship = NoRow THEN Outcome(404, "no_relationship", NoRow, NoWrite)
    ELSE IF friendship.status # "pending"
    THEN Outcome(400, "wrong_state", [status |-> friendship.status], NoWrite)
    ELSE Outcome(200, "accepted", NoRow,
                 UpdateOf(friendship, [status |-> "accepted"]))

\* the re-accept bug: the pending check is missing
accept_friend_request_no_state_check(current_user, body) ==
    LET user_uuid == Strip(body.uuid)
        friendship == find_friendship(friendships, current_user, user_uuid)
    IN
    IF ~body.json THEN Outcome(400, "no_json", NoRow, NoWrite)
    ELSE IF user_uuid = Empty THEN Outcome(400, "uuid_required", NoRow, NoWrite)
    ELSE IF friendship = NoRow THEN Outcome(404, "no_relationship", NoRow, NoWrite)
    ELSE IF friendship.requested_by_id = current_user
    THEN Outcome(403, "own_request", NoRow, NoWrite)
    ELSE Outcome(200, "accepted", NoRow,
                 UpdateOf(friendship, [status |-> "accepted"]))

\* a take-over variant: the accepter is recorded as the requester
accept_friend_request_takes_over(current_user, body) ==
    LET user_uuid == Strip(body.uuid)
        friendship == find_friendship(friendships, current_user, user_uuid)
    IN
    IF ~body.json THEN Outcome(400, "no_json", NoRow, NoWrite)
    ELSE IF user_uuid = Empty THEN Outcome(400, "uuid_required", NoRow, NoWrite)
    ELSE IF friendship = NoRow THEN Outcome(404, "no_relationship", NoRow, NoWrite)
    ELSE IF friendship.status # "pending"
    THEN Outcome(400, "wrong_state", [status |-> friendship.status], NoWrite)
    ELSE IF friendship.requested_by_id = current_user
    THEN Outcome(403, "own_request", NoRow, NoWrite)
    ELSE Outcome(200, "accepted", NoRow,
                 UpdateOf(friendship, [status |-> "accepted",
                                       requested_by_id |-> current_user]))

accept_friend_request(current_user, body) ==
    LET user_uuid == Strip(body.uuid)
        friendship == find_friendship(friendships, current_user, user_uuid)
    IN
    IF ~body.json THEN Outcome(400, "no_json", NoRow, NoWrite)
    ELSE IF user_uuid = Empty THEN Outcome(400, "uuid_required", NoRow, NoWrite)
    ELSE IF friendship = NoRow THEN Outcome(404, "no_relationship", NoRow, NoWrite)
    ELSE IF friendship.status # "pending"
    THEN Outcome(400, "wrong_state", [status |-> friendship.status], NoWrite)
    ELSE IF friendship.requested_by_id = current_user
    THEN Outcome(403, "own_request", NoRow, NoWrite)
    ELSE Outcome(200, "accepted", NoRow,
                 UpdateOf(friendship, [status |-> "accepted"]))

\* the fifth-status bug: a rejection is stored under another name
reject_friend_request_declines(current_user, body) ==
    LET user_uuid == Strip(body.uuid)
        friendship == find_friendship(friendships, current_user, user_uuid)
    IN
    IF ~body.json THEN Outcome(400, "no_json", NoRow, NoWrite)
    ELSE IF user_uuid = Empty THEN Outcome(400, "uuid_required", NoRow, NoWrite)
    ELSE IF friendship = NoRow THEN Outcome(404, "no_relationship", NoRow, NoWrite)
    ELSE IF friendship.status # "pending"
    THEN Outcome(400, "wrong_state", [status |-> friendship.status], NoWrite)
    ELSE IF friendship.requested_by_id = current_user
    THEN Outcome(403, "own_request", NoRow, NoWrite)
    ELSE Outcome(200, "rejected", NoRow,
                 UpdateOf(friendship, [status |-> "declined"]))

reject_friend_request(current_user, body) ==
    LET user_uuid == Strip(body.uuid)
        friendship == find_friendship(friendships, current_user, user_uuid)
    IN
    IF ~body.json THEN Outcome(400, "no_json", NoRow, NoWrite)
    ELSE IF user_uuid = Empty THEN Outcome(400, "uuid_required", NoRow, NoWrite)
    ELSE IF friendship = NoRow THEN Outcome(404, "no_relationship", NoRow, NoWrite)
    ELSE IF friendship.status # "pending"
    THEN Outcome(400, "wrong_state", [status |-> friendship.status], NoWrite)
    ELSE IF friendship.requested_by_id = current_user
    THEN Outcome(403, "own_request", NoRow, NoWrite)
    ELSE Outcome(200, "rejected", NoRow,
                 UpdateOf(friendship, [status |-> "rejected"]))

\* the over-eager unfriend bug: any row not yet removed is removed
unfriend_user_any_status(current_user, body) ==
    LET user_uuid == Strip(body.uuid)
        friendship == find_friendship(friendships, current_user, user_uuid)
    IN
    IF ~body.json THEN Outcome(400, "no_json", NoRow, NoWrite)
    ELSE IF user_uuid = Empty THEN Outcome(400, "uuid_required", NoRow, NoWrite)
    ELSE IF friendship = NoRow THEN Outcome(404, "no_relationship", NoRow, NoWrite)
    ELSE IF friendship.status # "removed"
    THEN Outcome(200, "unfriended", NoRow,
                 UpdateOf(friendship, [status |-> "removed"]))
    ELSE Outcome(200, "no_change", to_dict(friendship, current_user), NoWrite)

\* the strict unfriend variant: a row that is not accepted is an error
unfriend_user_fails_unless_accepted(current_user, body) ==
    LET user_uuid == Strip(body.uuid)
        friendship == find_friendship(friendships, current_user, user_uuid)
    IN
    IF ~body.json THEN Outcome(400, "no_json", NoRow, NoWrite)
    ELSE IF user_uuid = Empty THEN Outcome(400, "uuid_required", NoRow, NoWrite)
    ELSE IF friendship = NoRow THEN Outcome(404, "no_relationship", NoRow, NoWrite)
    ELSE IF friendship.status = "accepted"
    THEN Outcome(200, "unfriended", NoRow,
                 UpdateOf(friendship, [status |-> "removed"]))
    ELSE Outcome(400, "no_change", to_dict(friendship, current_user), NoWrite)

\* a one-sided variant: only the member who sent the request may unfriend
unfriend_user_requester_only(current_user, body) ==
    LET user_uuid == Strip(body.uuid)
        friendship == find_friendship(friendships, current_user, user_uuid)
    IN
    IF ~body.json THEN Outcome(400, "no_json", NoRow, NoWrite)
    ELSE IF user_uuid = Empty THEN Outcome(400, "uuid_required", NoRow, NoWrite)
    ELSE IF friendship = NoRow THEN Outcome(404, "no_relationship", NoRow, NoWrite)
    ELSE IF friendship.status = "accepted" /\ is_requested_by(friendship, current_user)
    THEN Outcome(200, "unfriended", NoRow,
                 UpdateOf(friendship, [status |-> "removed"]))
    ELSE Outcome(200, "no_change", to_dict(friendship, current_user), NoWrite)

unfriend_user(current_user, body) ==
    LET user_uuid == Strip(body.uuid)
        friendship == find_friendship(friendships, current_user, user_uuid)
    IN
    IF ~body.json THEN Outcome(400, "no_json", NoRow, NoWrite)
    ELSE IF user_uuid = Empty THEN Outcome(400, "uuid_required", NoRow, NoWrite)
    ELSE IF friendship = NoRow THEN Outcome(404, "no_relationship", NoRow, NoWrite)
    ELSE IF friendship.status = "accepted"
    THEN Outcome(200, "unfriended", NoRow,
                 UpdateOf(friendship, [status |-> "removed"]))
    ELSE Outcome(200, "no_change", to_dict(friendship, current_user), NoWrite)

----------------------------------------------------------------------------
(* Request handling.  A handler with nothing to commit answers in the step *)
(* that reads; one with a unit of work stops before its commit, and        *)
(* CommitFriendship finishes it.                                           *)

NoToken == [type |-> "none"]

Response(op, actor, body, code, msg, friendship) ==
    [op |-> op, actor |-> actor, body |-> body, code |-> code, msg |-> msg,
     friendship |-> friendship, access_token |-> NoToken]

\* nothing returned yet
NoResp == Response("none", Empty, NoJson, 0, "none", NoRow)

Handle(op, actor, body, out) ==
    IF out.write.kind = "none"
    THEN /\ resp' = Response(op, actor, body, out.code, out.msg, out.friendship)
         /\ UNCHANGED <<users, auth_local, friendships, inflight, streak, pair,
                     now, tokens, logged_out, login_committed>>
    ELSE /\ BagCardinality(inflight) < MaxInFlight
         /\ inflight' = inflight (+) SetToBag({
                [op |-> op, actor |-> actor, body |-> body,
                 code |-> out.code, msg |-> out.msg, write |-> out.write]})
         /\ UNCHANGED <<users, auth_local, friendships, resp, streak, pair,
                     now, tokens, logged_out, login_committed>>

SendRequest(actor, body) ==
    Handle("request", actor, body, send_friend_request(actor, body))

Accept(actor, body) ==
    Handle("accept", actor, body, accept_friend_request(actor, body))

Reject(actor, body) ==
    Handle("reject", actor, body, reject_friend_request(actor, body))

Unfriend(actor, body) ==
    Handle("unfriend", actor, body, unfriend_user(actor, body))

\* the missing-constraint bug: the table accepts a second row for the key
PrimaryKeyFree_unchecked(table, row) == TRUE

\* PRIMARY KEY (user_low_id, user_high_id) and uq_friendship_pair
PrimaryKeyFree(table, row) ==
    FriendshipRows(table, row.user_low_id, row.user_high_id) = {}

\* a hard-delete variant: closing a relationship drops its row
StoreRow_deleting_closed(table, old, new) ==
    IF new.status \in {"rejected", "removed"} THEN table \ {old}
    ELSE (table \ {old}) \cup {new}

\* the UPDATE of a commit: the row is replaced in place by its new version
StoreRow(table, old, new) == (table \ {old}) \cup {new}

\* db.session.commit() of a friendship unit of work, and the handler's
\* return (or its except clause)
CommitFriendship(h) ==
    LET w == h.write
    IN
    /\ BagIn(h, inflight)
    /\ h.op \in {"request", "accept", "reject", "unfriend"}
    /\ inflight' = inflight (-) SetToBag({h})
    /\ IF w.kind = "insert"
       THEN IF PrimaryKeyFree(friendships, w.row)
            THEN /\ friendships' = friendships \cup {w.row}
                 /\ resp' = Response(h.op, h.actor, h.body, h.code, h.msg,
                                     to_dict(w.row, h.actor))
            ELSE \* IntegrityError: rollback
                 /\ friendships' = friendships
                 /\ resp' = Response(h.op, h.actor, h.body, 500, "integrity_error", NoRow)
       ELSE LET rows == FriendshipRows(friendships, w.loaded.user_low_id,
                                       w.loaded.user_high_id)
            IN IF rows = {}
               THEN \* StaleDataError: rollback
                    /\ friendships' = friendships
                    /\ resp' = Response(h.op, h.actor, h.body, 500, "internal_error", NoRow)
               ELSE LET old == CHOOSE f \in rows : TRUE
                        new == SetColumns(old, w.set)
                    IN /\ friendships' = StoreRow(friendships, old, new)
                       /\ resp' = Response(h.op, h.actor, h.body, h.code, h.msg,
                                           to_dict(new, h.actor))
    /\ UNCHANGED <<users, auth_local, streak, pair, now, tokens, logged_out,
                   login_committed>>

----------------------------------------------------------------------------
(* The friendship ledger under concurrent requests                         *)

\* strings of characters: a..z are 1..26, ' ' is 30, '@' is 40, '.' is 41,
\* '!' is 42, '?' is 43, '#' is 44, '-' is 45, '0'..'9' are 50..59, and an
\* upper-case letter is its lower-case code plus 100
AnaName == <<1, 14, 1>>
AnaEmail == <<1, 14, 1, 40, 24, 41, 3, 15, 13>>
AnaEmailUpper == <<101, 114, 101, 40, 124, 41, 103, 115, 113>>
\* " ana "
AnaNameSpaced == <<30, 1, 14, 1, 30>>
BetoName == <<2, 5, 20, 15>>
BetoEmail == <<2, 5, 20, 15, 40, 24, 41, 3, 15, 13>>
NadieName == <<14, 1, 4, 9, 5>>

\* "Abcd123!", "Beto456?" and "Wrong789#"
AnaPassword == <<101, 2, 3, 4, 51, 52, 53, 42>>
BetoPassword == <<102, 5, 20, 15, 54, 55, 56, 43>>
WrongPassword == <<123, 18, 15, 14, 7, 57, 58, 59, 44>>

\* the Argon2 digest of a password; it is never the password itself
hash_password(password) == [argon2 |-> password]

\* ph.verify: a mismatch, and any other exception, is False
verify_password(password, password_hash) ==
    password_hash = hash_password(password)

\* an auth_local row as register creates it
Credential(user_uuid, password) ==
    [user_uuid |-> user_uuid, password_hash |-> hash_password(password),
     login_attempts |-> 0, is_locked |-> FALSE]

Account(uuid, username, email, is_active) ==
    [uuid |-> uuid, username |-> username, email |-> email, is_active |-> is_active]

Directory == {Account(Ana, AnaName, AnaEmail, TRUE), Account(Beto, BetoName, BetoEmail, TRUE)}

Bodies == {NoJson} \cup {Body(t) : t \in {Ana, Beto, Nadie, Empty}}

NoPair == [a |-> Empty, b |-> Empty, out |-> <<>>]

\* every account was registered, so it has its credential
Credentials == {Credential(Ana, AnaPassword), Credential(Beto, BetoPassword)}

Init ==
    /\ users = Directory
    /\ auth_local = Credentials
    /\ friendships = {}
    /\ inflight = EmptyBag
    /\ resp = NoResp
    /\ streak = [u \in {Ana, Beto} |-> 0]
    /\ pair = NoPair
    /\ now = 0
    /\ tokens = {}
    /\ logged_out = {}
    /\ login_committed = NoWrite

Next ==
    \/ \E u \in users, b \in Bodies : SendRequest(u.uuid, b)
    \/ \E u \in users, b \in Bodies : Accept(u.uuid, b)
    \/ \E u \in users, b \in Bodies : Reject(u.uuid, b)
    \/ \E u \in users, b \in Bodies : Unfriend(u.uuid, b)
    \/ \E h \in BagToSet(inflight) : CommitFriendship(h)

Spec == Init /\ [][Next]_vars

----------------------------------------------------------------------------
(* Properties of the friendship ledger                                     *)

\* the rows of a table that relate a and b, in either column order
PairRows(table, a, b) ==
    {f \in table : {f.user_low_id, f.user_high_id} = {a, b}}

\* the row relating a and b after a step, NoRow when there is none
RowAfter(a, b) ==
    IF PairRows(friendships', a, b) = {} THEN NoRow
    ELSE CHOOSE f \in PairRows(friendships', a, b) : TRUE

RowNow(a, b) ==
    IF PairRows(friendships, a, b) = {} THEN NoRow
    ELSE CHOOSE f \in PairRows(friendships, a, b) : TRUE

AnswersNow(op, actor, body, code, msg) ==
    /\ resp'.op = op /\ resp'.actor = actor /\ resp'.body = body
    /\ resp'.code = code /\ resp'.msg = msg

\* C1: whatever requests ran and however they interleaved, the table holds
\* at most one row per unordered pair of account ids.
C1_OneRowPerPair ==
    \A f \in friendships, g \in friendships :
        {f.user_low_id, f.user_high_id} = {g.user_low_id, g.user_high_id} => f = g

\* C1 witness: two requests for the same pair raced; one row was stored and
\* the loser's INSERT was refused by the key.
C1_Witness ==
    /\ resp.op = "request" /\ resp.msg = "integrity_error"
    /\ Cardinality(PairRows(friendships, Ana, Beto)) = 1

\* C3: a row becomes accepted only by the commit of an accept whose actor is
\* a member of the pair and is not the row's requested_by_id at that moment.
C3_AcceptedOnlyByReceiver ==
    [][\A f \in friendships :
          LET g == RowAfter(f.user_low_id, f.user_high_id)
          IN (f.status # "accepted" /\ g.status = "accepted") =>
                \E h \in BagToSet(inflight) :
                    /\ CopiesIn(h, inflight') < CopiesIn(h, inflight)
                    /\ h.op = "accept"
                    /\ h.actor \in {f.user_low_id, f.user_high_id}
                    /\ h.actor # f.requested_by_id]_vars

\* a handler answered op in the step that read the store
AnsweredAtOnce(op) == resp' # resp /\ resp'.op = op /\ inflight' = inflight

\* the step left handler h stopped before its commit
Queued(h) == CopiesIn(h, inflight') > CopiesIn(h, inflight)

\* the step committed handler h and answered it
Committed(h) == CopiesIn(h, inflight') < CopiesIn(h, inflight)

\* a request record (an answer or a stopped handler) names a row that the
\* one asking had requested
AsksAsRequester(r) ==
    /\ r.body.json
    /\ RowNow(r.actor, r.body.uuid) # NoRow
    /\ RowNow(r.actor, r.body.uuid).requested_by_id = r.actor

AsksOnStatus(r, statuses) ==
    /\ r.body.json
    /\ RowNow(r.actor, r.body.uuid) # NoRow
    /\ RowNow(r.actor, r.body.uuid).status \in statuses

C5_RepeatedRequestIdempotent ==
    [][/\ (AnsweredAtOnce("request")
           /\ AsksAsRequester(resp') /\ AsksOnStatus(resp', {"pending"}))
          => (resp'.code = 200 /\ resp'.msg = "request_exists"
              /\ resp'.friendship.status = "pending"
              /\ friendships' = friendships)
       /\ \A h \in BagToSet(inflight') :
             (Queued(h) /\ h.op = "request")
             => ~(AsksAsRequester(h) /\ AsksOnStatus(h, {"pending"}))
       /\ \A h \in BagToSet(inflight) :
             (Committed(h) /\ h.op = "request"
              /\ AsksAsRequester(h) /\ AsksOnStatus(h, {"pending"}))
             => friendships' = friendships]_vars

\* C5 witness: A repeated the request while it was pending and was told it
\* already exists.
C5_Witness ==
    /\ resp.op = "request" /\ resp.msg = "request_exists"
    /\ AsksAsRequester(resp) /\ AsksOnStatus(resp, {"pending"})
    /\ Cardinality(friendships) = 1

C7_AcceptThenWrongState ==
    [][/\ \A h \in BagToSet(inflight) :
             (Committed(h) /\ h.op = "accept")
             => /\ RowAfter(h.actor, h.body.uuid).status = "accepted"
                /\ AnswersNow("accept", h.actor, h.body, 200, "accepted")
       /\ ((AnsweredAtOnce("accept") \/ AnsweredAtOnce("reject"))
           /\ AsksOnStatus(resp', {"accepted"}))
          => (resp'.code = 400 /\ resp'.msg = "wrong_state"
              /\ resp'.friendship.status = "accepted"
              /\ friendships' = friendships)
       /\ \A h \in BagToSet(inflight') :
             (Queued(h) /\ h.op \in {"accept", "reject"})
             => ~AsksOnStatus(h, {"accepted"})]_vars

\* C7 witness: Ana requested, Beto accepted, and Beto's next accept or reject
\* was refused for the wrong state.
C7_Witness ==
    /\ resp.op \in {"accept", "reject"} /\ resp.actor = Beto
    /\ resp.body = Body(Ana) /\ resp.code = 400 /\ resp.msg = "wrong_state"
    /\ RowNow(Ana, Beto).status = "accepted"
    /\ RowNow(Ana, Beto).requested_by_id = Ana

\* C8: unfriend by a member on a row that is not accepted changes no row,
\* queues no write, and reports the row's key, current status and requester.
C8_UnfriendNonAcceptedUnchanged ==
    [][/\ (AnsweredAtOnce("unfriend")
           /\ AsksOnStatus(resp', {"pending", "rejected", "removed"}))
          => LET f == RowNow(resp'.actor, resp'.body.uuid)
             IN /\ friendships' = friendships
                /\ resp'.friendship.user_low_id = f.user_low_id
                /\ resp'.friendship.user_high_id = f.user_high_id
                /\ resp'.friendship.status = f.status
                /\ resp'.friendship.requested_by_id = f.requested_by_id
       /\ \A h \in BagToSet(inflight') :
             (Queued(h) /\ h.op = "unfriend")
             => ~AsksOnStatus(h, {"pending", "rejected", "removed"})]_vars

\* C8 witness: Ana requested and then unfriended; the row is still pending
\* with Ana as requester and the answer reports pending.
C8_Witness ==
    /\ resp.op = "unfriend" /\ resp.actor = Ana /\ resp.body = Body(Beto)
    /\ resp.friendship.status = "pending"
    /\ RowNow(Ana, Beto).status = "pending"
    /\ RowNow(Ana, Beto).requested_by_id = Ana

\* C9 as claimed: unfriend by the requester on the still-pending row has a
\* failure outcome.
C9_Original ==
    [][(AnsweredAtOnce("unfriend")
        /\ AsksAsRequester(resp') /\ AsksOnStatus(resp', {"pending"}))
       => resp'.code >= 400]_vars

\* C9 amended: unfriend by the requester on the still-pending row is answered
\* at once with the success outcome 200 that reports "no change".
C9_UnfriendPendingReportsSuccess ==
    [][/\ (AnsweredAtOnce("unfriend")
           /\ AsksAsRequester(resp') /\ AsksOnStatus(resp', {"pending"}))
          => (resp'.code = 200 /\ resp'.msg = "no_change")
       /\ \A h \in BagToSet(inflight') :
             (Queued(h) /\ h.op = "unfriend")
             => ~(AsksAsRequester(h) /\ AsksOnStatus(h, {"pending"}))]_vars

\* C9 witness: the requester's unfriend of a pending request came back 200.
C9_Witness ==
    /\ resp.op = "unfriend" /\ resp.code = 200 /\ resp.msg = "no_change"
    /\ resp.friendship.status = "pending" /\ resp.friendship.requested_by_me

\* C22: when two send_request calls for the same pair both find no row, one
\* row is stored, and the call whose INSERT is refused by the key leaves
\* the table as it is and is answered with a user-facing "already exists"
\* outcome, not with a server error.
C22_RequestRaceLoserToldAlreadyExists ==
    [][\A h \in BagToSet(inflight) :
          (Committed(h) /\ h.op = "request" /\ h.write.kind = "insert"
           /\ RowNow(h.actor, h.body.uuid) # NoRow)
          => /\ friendships' = friendships
             /\ Cardinality(PairRows(friendships', h.actor, h.body.uuid)) = 1
             /\ resp'.code < 500]_vars

C29_RowsCanonical ==
    \A f \in friendships : StrLess(f.user_low_id, f.user_high_id)

\* C29 witness: Beto, whose id is the greater, requested Ana; the row is
\* stored as (Ana, Beto), and a racing request then failed at its INSERT.
C29_Witness ==
    /\ resp.op = "request" /\ resp.code = 500 /\ resp.msg = "integrity_error"
    /\ StrLess(Ana, Beto)
    /\ friendships = {[user_low_id |-> Ana, user_high_id |-> Beto,
                       status |-> "pending", requested_by_id |-> Beto]}

\* C30: every stored row has one of the four statuses, and its
\* requested_by_id is one of its two members.
C30_StatusAndRequesterWellFormed ==
    \A f \in friendships :
        /\ f.status \in {"pending", "accepted", "rejected", "removed"}
        /\ f.requested_by_id \in {f.user_low_id, f.user_high_id}

\* C30 witness: the relationship went through all four statuses: requested
\* by Ana, accepted, removed, requested again by Beto and rejected by Ana.
C30_Witness ==
    /\ resp.op = "reject" /\ resp.actor = Ana /\ resp.code = 200
    /\ friendships = {[user_low_id |-> Ana, user_high_id |-> Beto,
                       status |-> "rejected", requested_by_id |-> Beto]}
    /\ \E h \in BagToSet(inflight) :
          /\ h.op = "unfriend"
          /\ h.write.loaded.status = "accepted"
          /\ h.write.loaded.requested_by_id = Ana

\* a request record names an id that no account has
AsksStranger(r) ==
    /\ r.body.json
    /\ Strip(r.body.uuid) \notin {Empty, r.actor}
    /\ \A u \in users : u.uuid # Strip(r.body.uuid)

\* a request record names somebody the one asking has no row with
AsksWithoutRow(r) ==
    /\ r.body.json
    /\ Strip(r.body.uuid) # Empty
    /\ RowNow(r.actor, Strip(r.body.uuid)) = NoRow

\* C25: send_request naming an id that no account has is answered 404
\* (target not found) and stores and queues nothing; accept, reject and
\* unfriend naming somebody the caller has no row with are answered 404 (no
\* relationship) and change and queue nothing.
C25_UnknownTargetNotFound ==
    [][/\ (AnsweredAtOnce("request") /\ AsksStranger(resp'))
          => (resp'.code = 404 /\ resp'.msg = "target_not_found"
              /\ friendships' = friendships)
       /\ ((AnsweredAtOnce("accept") \/ AnsweredAtOnce("reject")
            \/ AnsweredAtOnce("unfriend")) /\ AsksWithoutRow(resp'))
          => (resp'.code = 404 /\ resp'.msg = "no_relationship"
              /\ friendships' = friendships)
       /\ \A h \in BagToSet(inflight') :
             Queued(h) =>
                /\ h.op = "request" => ~AsksStranger(h)
                /\ h.op \in {"accept", "reject", "unfriend"} => ~AsksWithoutRow(h)
       /\ \A f \in friendships' : \A id \in {f.user_low_id, f.user_high_id} :
             \E u \in users : u.uuid = id]_vars

\* C25 witness: Ana and Beto have a row, and Ana's request to an id that no
\* account has was answered 404 and left the table with that one row.
C25_Witness ==
    /\ resp.op = "request" /\ resp.actor = Ana /\ resp.body = Body(Nadie)
    /\ resp.code = 404 /\ resp.msg = "target_not_found"
    /\ Cardinality(friendships) = 1
    /\ RowNow(Ana, Beto) # NoRow
    /\ RowNow(Ana, Nadie) = NoRow

----------------------------------------------------------------------------
(* The life of one relationship: Ana and Beto name each other (or          *)
(* themselves) in every friend operation, and their handlers interleave    *)

PairBodies == {Body(Ana), Body(Beto)}

NextLedger ==
    \/ \E u \in users, b \in PairBodies : SendRequest(u.uuid, b)
    \/ \E u \in users, b \in PairBodies : Accept(u.uuid, b)
    \/ \E u \in users, b \in PairBodies : Reject(u.uuid, b)
    \/ \E u \in users, b \in PairBodies : Unfriend(u.uuid, b)
    \/ \E h \in BagToSet(inflight) : CommitFriendship(h)

SpecLedger == Init /\ [][NextLedger]_vars

\* C31: a row is never deleted: every row of the table before a step has a
\* row with the same pair key after it, whatever the step was (a request,
\* an accept, a reject, an unfriend, or the commit of any of them).
C31_RowsNeverDeleted ==
    [][\A f \in friendships :
          \E g \in friendships' : /\ g.user_low_id = f.user_low_id
                                  /\ g.user_high_id = f.user_high_id]_vars

\* C31 witness: the relationship was accepted and then unfriended; the row
\* is still in the table, with status removed.
C31_Witness ==
    /\ resp.op = "unfriend" /\ resp.code = 200 /\ resp.msg = "unfriended"
    /\ Cardinality(friendships) = 1
    /\ RowNow(Ana, Beto) # NoRow
    /\ RowNow(Ana, Beto).status = "removed"

C38_PendingResolvedOnce ==
    [][\A h \in BagToSet(inflight) :
          (Committed(h) /\ h.op \in {"accept", "reject"} /\ resp'.code = 200)
          => /\ RowNow(h.actor, h.body.uuid).status = "pending"
             /\ RowAfter(h.actor, h.body.uuid).status
                = (IF h.op = "accept" THEN "accepted" ELSE "rejected")]_vars

\* C39: when both members re-request a rejected or removed relationship
\* at once, at most one call reports that its request was sent: a
\* re-request whose commit finds the row still rejected or removed reports
\* success and the row then names that caller as requester; one whose
\* commit finds the row already reopened by the other member does not
\* report success.
C39_ReRequestWonOnce ==
    [][\A h \in BagToSet(inflight) :
          (Committed(h) /\ h.op = "request" /\ h.write.kind = "update")
          => /\ RowNow(h.actor, h.body.uuid).status \in {"rejected", "removed"}
                => /\ resp'.code = 200
                   /\ resp'.friendship.requested_by_me
                   /\ RowAfter(h.actor, h.body.uuid).requested_by_id = h.actor
             /\ (/\ RowNow(h.actor, h.body.uuid).status = "pending"
                 /\ RowNow(h.actor, h.body.uuid).requested_by_id # h.actor)
                => resp'.code # 200]_vars

----------------------------------------------------------------------------
(* The friendship ledger when callers pad the ids they send with blanks    *)

\* " 12 ", " 21 " and "  "
AnaPadded == <<Blank, 1, 2, Blank>>
BetoPadded == <<Blank, 2, 1, Blank>>
Blanks == <<Blank, Blank>>

\* the targets callers name: themselves or the other, padded or not, and
\* nobody
PaddedBodies == {Body(t) : t \in {Ana, AnaPadded, BetoPadded, Blanks}}

NextPadded ==
    \/ \E u \in users, b \in PaddedBodies : SendRequest(u.uuid, b)
    \/ \E u \in users : Accept(u.uuid, Body(AnaPadded))
    \/ \E u \in users : Reject(u.uuid, Body(AnaPadded))
    \/ \E h \in BagToSet(inflight) : CommitFriendship(h)

SpecPadded == Init /\ [][NextPadded]_vars

\* a request record whose target, blanks stripped, is the one asking
AsksSelf(r) == r.body.json /\ Strip(r.body.uuid) = r.actor

\* C24: send_request whose target is the caller is answered 400 (self
\* request) at once: before any lookup, with nothing written and no write
\* queued; and no stored row ever has user_low_id = user_high_id.
C24_SelfRequestRejected ==
    [][/\ (AnsweredAtOnce("request") /\ AsksSelf(resp'))
          => (resp'.code = 400 /\ resp'.msg = "self_request"
              /\ resp'.friendship = NoRow
              /\ friendships' = friendships)
       /\ \A h \in BagToSet(inflight') :
             (Queued(h) /\ h.op = "request") => ~AsksSelf(h)
       /\ \A f \in friendships' : f.user_low_id # f.user_high_id]_vars

\* C24 witness: Ana and Beto are friends, and Ana's request to her own id,
\* sent with blanks around it, was refused as a request to herself.
C24_Witness ==
    /\ resp.op = "request" /\ resp.actor = Ana /\ resp.body = Body(AnaPadded)
    /\ resp.code = 400 /\ resp.msg = "self_request"
    /\ friendships # {}
    /\ \A f \in friendships :
          f.status = "accepted" /\ f.user_low_id # f.user_high_id

----------------------------------------------------------------------------
(* Friendship.normalize_user_pair as a function of any two ids            *)

InitPair ==
    /\ users = {}
    /\ auth_local = {}
    /\ friendships = {}
    /\ inflight = EmptyBag
    /\ resp = NoResp
    /\ streak = [u \in {Ana, Beto} |-> 0]
    /\ pair \in [a : Ids, b : Ids, out : {<<>>}]
    /\ now = 0
    /\ tokens = {}
    /\ logged_out = {}
    /\ login_committed = NoWrite

Normalize ==
    /\ pair.out = <<>>
    /\ pair' = [pair EXCEPT !.out = normalize_user_pair(pair.a, pair.b)]
    /\ UNCHANGED <<users, auth_local, friendships, inflight, resp, streak,
                   now, tokens, logged_out, login_committed>>

NextPair == Normalize

SpecPair == InitPair /\ [][NextPair]_vars

\* C2: normalize_user_pair(A,B) and normalize_user_pair(B,A) return the same
\* (low, high), and low is strictly less than high, for every pair of ids.
C2_NormalizeOrdered ==
    pair.out # <<>> =>
        LET r == normalize_user_pair(pair.b, pair.a)
        IN /\ pair.out[1] = r[1] /\ pair.out[2] = r[2]
           /\ StrLess(pair.out[1], pair.out[2])

----------------------------------------------------------------------------
(* security.py and routes/auth.py: passwords, tokens and login             *)

\* jwt.encode(payload, key, algorithm='HS256'): the claims and the MAC of
\* the key they were signed with
jwt_encode(payload, key) ==
    [form |-> "jwt", payload |-> payload, signed_with |-> key]

\* the access token that make_access_token builds when the UTC clock reads
\* issued_at: it is good for JWT_EXPIRES_MIN minutes
TokenAt(user_uuid, issued_at) ==
    jwt_encode([user_uuid |-> user_uuid, exp |-> issued_at + JWT_EXPIRES_MIN,
                iat |-> issued_at, type |-> "access_token"], JWT_SECRET)

make_access_token(user_uuid) == TokenAt(user_uuid, now)

\* str.lower()
Lower(str) == [i \in 1..Len(str) |-> IF str[i] > 100 THEN str[i] - 100 ELSE str[i]]

\* User.query.filter((username == name) | (email == name.lower()))
UsersNamed(name) ==
    {u \in users : u.username = name \/ u.email = Lower(name)}

\* user.auth_local
AuthOf(user_uuid) == {a \in auth_local : a.user_uuid = user_uuid}

LoginOutcome(code, msg, token, user_uuid, write) ==
    [code |-> code, msg |-> msg, access_token |-> token, user_uuid |-> user_uuid,
     write |-> write]

LoginBody(username, password) ==
    [json |-> TRUE, username |-> username, password |-> password]

NoLoginJson == [json |-> FALSE, username |-> Empty, password |-> Empty]

\* the deactivation-bypass bug: every account found counts as active
is_active_account_always(user) == TRUE

\* user.is_active, as login tests it
is_active_account(user) == user.is_active

\* the stale-counter bug: a successful login leaves the counter as it was
reset_login_attempts_keeps_count(cred) ==
    UpdateOf(cred, [login_attempts |-> cred.login_attempts])

\* "Login exitoso - resetear intentos fallidos", up to the commit
reset_login_attempts(cred) == UpdateOf(cred, [login_attempts |-> 0])

\* the lockout-bypass bug: the is_locked check is missing
login_ignores_lock(body) ==
    LET username == Strip(body.username)
        found == UsersNamed(username)
        user == CHOOSE u \in found : TRUE
        creds == AuthOf(user.uuid)
        cred == CHOOSE a \in creds : TRUE
        attempts == cred.login_attempts + 1
    IN
    IF ~body.json THEN LoginOutcome(400, "no_json", NoToken, Empty, NoWrite)
    ELSE IF username = Empty \/ body.password = Empty
    THEN LoginOutcome(400, "fields_required", NoToken, Empty, NoWrite)
    ELSE IF found = {} THEN LoginOutcome(401, "invalid_credentials", NoToken, Empty, NoWrite)
    ELSE IF ~is_active_account(user)
    THEN LoginOutcome(401, "invalid_credentials", NoToken, user.uuid, NoWrite)
    ELSE IF creds = {}
    THEN LoginOutcome(401, "invalid_credentials", NoToken, user.uuid, NoWrite)
    ELSE IF ~verify_password(body.password, cred.password_hash)
    THEN LoginOutcome(401, "invalid_credentials", NoToken, user.uuid,
             UpdateOf(cred, IF attempts >= LockThreshold
                            THEN [login_attempts |-> attempts, is_locked |-> TRUE]
                            ELSE [login_attempts |-> attempts]))
    ELSE LoginOutcome(200, "logged_in", make_access_token(user.uuid), user.uuid,
             reset_login_attempts(cred))

\* a late-lock variant: the account locks on the failure after the fifth
login_locks_late(body) ==
    LET username == Strip(body.username)
        found == UsersNamed(username)
        user == CHOOSE u \in found : TRUE
        creds == AuthOf(user.uuid)
        cred == CHOOSE a \in creds : TRUE
        attempts == cred.login_attempts + 1
    IN
    IF ~body.json THEN LoginOutcome(400, "no_json", NoToken, Empty, NoWrite)
    ELSE IF username = Empty \/ body.password = Empty
    THEN LoginOutcome(400, "fields_required", NoToken, Empty, NoWrite)
    ELSE IF found = {} THEN LoginOutcome(401, "invalid_credentials", NoToken, Empty, NoWrite)
    ELSE IF ~is_active_account(user)
    THEN LoginOutcome(401, "invalid_credentials", NoToken, user.uuid, NoWrite)
    ELSE IF creds = {}
    THEN LoginOutcome(401, "invalid_credentials", NoToken, user.uuid, NoWrite)
    ELSE IF cred.is_locked
    THEN LoginOutcome(401, "account_locked", NoToken, user.uuid, NoWrite)
    ELSE IF ~verify_password(body.password, cred.password_hash)
    THEN LoginOutcome(401, "invalid_credentials", NoToken, user.uuid,
             UpdateOf(cred, IF attempts > LockThreshold
                            THEN [login_attempts |-> attempts, is_locked |-> TRUE]
                            ELSE [login_attempts |-> attempts]))
    ELSE LoginOutcome(200, "logged_in", make_access_token(user.uuid), user.uuid,
             reset_login_attempts(cred))

\* login up to its db.session.commit()
login(body) ==
    LET username == Strip(body.username)
        found == UsersNamed(username)
        user == CHOOSE u \in found : TRUE
        creds == AuthOf(user.uuid)
        cred == CHOOSE a \in creds : TRUE
        attempts == cred.login_attempts + 1
    IN
    IF ~body.json THEN LoginOutcome(400, "no_json", NoToken, Empty, NoWrite)
    ELSE IF username = Empty \/ body.password = Empty
    THEN LoginOutcome(400, "fields_required", NoToken, Empty, NoWrite)
    ELSE IF found = {} THEN LoginOutcome(401, "invalid_credentials", NoToken, Empty, NoWrite)
    ELSE IF ~is_active_account(user)
    THEN LoginOutcome(401, "invalid_credentials", NoToken, user.uuid, NoWrite)
    ELSE IF creds = {}
    THEN LoginOutcome(401, "invalid_credentials", NoToken, user.uuid, NoWrite)
    ELSE IF cred.is_locked
    THEN LoginOutcome(401, "account_locked", NoToken, user.uuid, NoWrite)
    ELSE IF ~verify_password(body.password, cred.password_hash)
    THEN LoginOutcome(401, "invalid_credentials", NoToken, user.uuid,
             UpdateOf(cred, IF attempts >= LockThreshold
                            THEN [login_attempts |-> attempts, is_locked |-> TRUE]
                            ELSE [login_attempts |-> attempts]))
    ELSE LoginOutcome(200, "logged_in", make_access_token(user.uuid), user.uuid,
             reset_login_attempts(cred))

\* the whole-row bug: the commit writes every column of the object as the
\* handler holds it, not only the columns it changed
CommitAuth_whole_row(table, write) ==
    IF write.kind = "none" THEN table
    ELSE {IF a.user_uuid = write.loaded.user_uuid
          THEN SetColumns(write.loaded, write.set) ELSE a
          : a \in table}

\* db.session.commit() of a credential unit of work: UPDATE auth_local SET
\* <the changed columns> WHERE the loaded row's key matches
CommitAuth(table, write) ==
    IF write.kind = "none" \/ DOMAIN write.set = {} THEN table
    ELSE {IF a.user_uuid = write.loaded.user_uuid THEN SetColumns(a, write.set) ELSE a
          : a \in table}

\* the run of failed login answers an account has seen
StreakAfter(out) ==
    IF out.user_uuid \notin DOMAIN streak THEN streak
    ELSE IF out.code = 200 THEN [streak EXCEPT ![out.user_uuid] = 0]
    ELSE IF out.code = 401 /\ streak[out.user_uuid] < MaxStreak
    THEN [streak EXCEPT ![out.user_uuid] = @ + 1]
    ELSE streak

\* one login request, start to answer, with no other request in between
Login(body) ==
    LET out == login(body)
    IN /\ out.code = 200 => Cardinality(tokens \cup {out.access_token}) <= MaxTokens
       /\ auth_local' = CommitAuth(auth_local, out.write)
       /\ login_committed' = IF out.write.kind = "none" THEN login_committed
                            ELSE out.write
       /\ resp' = [Response("login", Empty, body, out.code, out.msg, NoRow)
                      EXCEPT !.access_token = out.access_token]
       /\ tokens' = IF out.code = 200 THEN tokens \cup {out.access_token} ELSE tokens
       /\ streak' = StreakAfter(out)
       /\ UNCHANGED <<users, friendships, inflight, pair, now, logged_out>>

----------------------------------------------------------------------------
(* Logins one after another                                                *)

\* Ana is active; Beto's account was deactivated from outside
AuthDirectory ==
    {Account(Ana, AnaName, AnaEmail, TRUE), Account(Beto, BetoName, BetoEmail, FALSE)}

LoginBodies ==
    {NoLoginJson}
    \cup {LoginBody(n, p) : n \in {AnaName, AnaEmailUpper, AnaNameSpaced, BetoName, NadieName, Empty},
                            p \in {AnaPassword, BetoPassword, WrongPassword, Empty}}

InitAuth ==
    /\ users = AuthDirectory
    /\ auth_local = Credentials
    /\ friendships = {}
    /\ inflight = EmptyBag
    /\ resp = NoResp
    /\ streak = [u \in {Ana, Beto} |-> 0]
    /\ pair = NoPair
    /\ now = 0
    /\ tokens = {}
    /\ logged_out = {}
    /\ login_committed = NoWrite

NextAuth == \E b \in LoginBodies : Login(b)

SpecAuth == InitAuth /\ [][NextAuth]_vars

Locked(user_uuid) == \E a \in AuthOf(user_uuid) : a.is_locked

\* C10: once an active account has seen five failed logins in a row its
\* lockout flag is set, and a login on a locked account with the correct
\* password fails, issues no token and changes nothing.
C10_FiveFailuresLock ==
    [][/\ \A u \in users :
             (u.is_active /\ streak'[u.uuid] >= 5)
             => \E a \in auth_local' : a.user_uuid = u.uuid /\ a.is_locked
       /\ \A b \in LoginBodies : \A u \in UsersNamed(b.username) :
             (u.is_active /\ Locked(u.uuid) /\ b.json
              /\ (\E a \in AuthOf(u.uuid) : verify_password(b.password, a.password_hash))
              /\ Login(b))
             => /\ resp'.code = 401
                /\ resp'.access_token = NoToken
                /\ auth_local' = auth_local]_vars

\* C10 witness: five failures locked Ana's account and her sixth attempt,
\* with the correct password, was refused.
C10_Witness ==
    /\ streak[Ana] = 6
    /\ Locked(Ana)
    /\ resp.op = "login" /\ resp.body = LoginBody(AnaName, AnaPassword)
    /\ resp.code = 401 /\ resp.access_token = NoToken

FailureCause(b) ==
    LET found == UsersNamed(Strip(b.username))
        user == CHOOSE u \in found : TRUE
        cred == CHOOSE a \in AuthOf(user.uuid) : TRUE
    IN IF ~b.json \/ Strip(b.username) = Empty \/ b.password = Empty THEN "bad_request"
       ELSE IF found = {} THEN "no_such_user"
       ELSE IF ~user.is_active \/ AuthOf(user.uuid) = {} THEN "unusable_account"
       ELSE IF cred.is_locked THEN "locked"
       ELSE IF ~verify_password(b.password, cred.password_hash) THEN "wrong_password"
       ELSE "none"

OracleCauses == {"no_such_user", "wrong_password", "locked"}

\* C12: two logins that fail for any of the causes "no such user", "wrong
\* password" and "account locked" get the same status and the same error
\* reason.
C12_FailuresIndistinguishable ==
    \A b1, b2 \in LoginBodies :
        (FailureCause(b1) \in OracleCauses /\ FailureCause(b2) \in OracleCauses)
        => /\ login(b1).code = login(b2).code
           /\ login(b1).msg = login(b2).msg

\* the account exists, is active, has a credential, is not locked, and the
\* password verifies against the stored digest
MayLogin(b) ==
    /\ b.json
    /\ \E u \in users :
          /\ u.username = Strip(b.username) \/ u.email = Lower(Strip(b.username))
          /\ u.is_active
          /\ \E a \in auth_local :
                /\ a.user_uuid = u.uuid
                /\ ~a.is_locked
                /\ a.password_hash = hash_password(b.password)

\* C13: login hands out a token only when the account exists, is active, has
\* a credential, is not locked and the password verifies; a locked account
\* gets none, whatever the password.
C13_TokenOnlyForVerifiedLogin ==
    [][\A b \in LoginBodies :
          Login(b) =>
             /\ (resp'.access_token # NoToken \/ tokens' # tokens) => MayLogin(b)
             /\ (\E u \in UsersNamed(Strip(b.username)) : Locked(u.uuid))
                => (resp'.access_token = NoToken /\ tokens' = tokens)]_vars

\* C13 witness: Ana holds a token from a login with her password, and the
\* latest answer refused a locked account that gave its correct password.
C13_Witness ==
    /\ \E t \in tokens : t.payload.user_uuid = Ana
    /\ Locked(Ana)
    /\ resp.op = "login" /\ resp.body = LoginBody(AnaEmailUpper, AnaPassword)
    /\ resp.code = 401 /\ resp.access_token = NoToken

\* C36: with logins one after another, an account is locked exactly when
\* its failed-attempt counter is at least LockThreshold = 5 (so a
\* non-locked account's counter is in 0..4), and a login attempt on a locked
\* account, with the right or a wrong password, leaves its counter and its
\* flag as they were.
C36_LockedIffFiveFailures ==
    [][/\ \A a \in auth_local \cup auth_local' :
             /\ a.is_locked <=> (a.login_attempts >= LockThreshold)
             /\ ~a.is_locked => a.login_attempts \in 0..(LockThreshold - 1)
       /\ \A a \in auth_local : a.is_locked => a \in auth_local']_vars

\* C36 witness: Ana's account locked at its fifth failure; two more
\* attempts followed, the last one with a wrong password, and the counter
\* still reads five.
C36_Witness ==
    /\ streak[Ana] = 7
    /\ \A a \in AuthOf(Ana) : a.is_locked /\ a.login_attempts = LockThreshold
    /\ resp.op = "login" /\ resp.body = LoginBody(AnaName, WrongPassword)
    /\ resp.code = 401 /\ resp.msg = "account_locked"

----------------------------------------------------------------------------
(* security.py: token validation and the auth_required decorator;          *)
(* routes/auth.py: logout                                                  *)

\* what a caller can put where a token goes without having a JWT
BlankToken == [form |-> "blank"]
GarbageToken == [form |-> "garbage"]

InvalidToken(error) == [ok |-> FALSE, error |-> error]

\* the revocation bug: a token that was logged out is refused
decode_access_token_revoked(token) ==
    IF token.form = "blank" THEN InvalidToken("empty")
    ELSE IF token.form # "jwt" THEN InvalidToken("malformed")
    ELSE IF token.signed_with # JWT_SECRET THEN InvalidToken("malformed")
    ELSE IF token.payload.exp <= now THEN InvalidToken("expired")
    ELSE IF token \in logged_out THEN InvalidToken("revoked")
    ELSE IF token.payload.type # "access_token" THEN InvalidToken("wrong_type")
    ELSE IF token.payload.user_uuid = Empty THEN InvalidToken("no_user_uuid")
    ELSE [ok |-> TRUE, payload |-> token.payload]

\* the eternal-token bug: exp is not looked at
decode_access_token_never_expires(token) ==
    IF token.form = "blank" THEN InvalidToken("empty")
    ELSE IF token.form # "jwt" THEN InvalidToken("malformed")
    ELSE IF token.signed_with # JWT_SECRET THEN InvalidToken("malformed")
    ELSE IF token.payload.type # "access_token" THEN InvalidToken("wrong_type")
    ELSE IF token.payload.user_uuid = Empty THEN InvalidToken("no_user_uuid")
    ELSE [ok |-> TRUE, payload |-> token.payload]

\* jwt.decode checks the signature, then exp against the UTC clock (expired
\* from the instant exp on); a bad signature is a DecodeError and is reported
\* with it.  Then the type and the subject.
decode_access_token(token) ==
    IF token.form = "blank" THEN InvalidToken("empty")
    ELSE IF token.form # "jwt" THEN InvalidToken("malformed")
    ELSE IF token.signed_with # JWT_SECRET THEN InvalidToken("malformed")
    ELSE IF token.payload.exp <= now THEN InvalidToken("expired")
    ELSE IF token.payload.type # "access_token" THEN InvalidToken("wrong_type")
    ELSE IF token.payload.user_uuid = Empty THEN InvalidToken("no_user_uuid")
    ELSE [ok |-> TRUE, payload |-> token.payload]

\* the Authorization header, as the words a single blank separates: none
\* (absent or empty), the scheme alone, or the scheme and the rest
NoHeader == [parts |-> 0]
SchemeOnly(scheme) == [parts |-> 1, scheme |-> scheme]
Header(scheme, token) == [parts |-> 2, scheme |-> scheme, token |-> token]

\* "Bearer", "bearer", "BEARER" and "Basic"
Bearer == <<102, 5, 1, 18, 5, 18>>
BearerLower == <<2, 5, 1, 18, 5, 18>>
BearerUpper == <<102, 105, 101, 118, 105, 118>>
Basic == <<102, 1, 19, 9, 3>>

Refused(msg) == [ok |-> FALSE, code |-> 401, msg |-> msg]

\* the stale-subject bug: the token's subject is not looked up
auth_required_no_lookup(header) ==
    IF header.parts = 0 THEN Refused("token_required")
    ELSE IF header.parts = 1 \/ Lower(header.scheme) # BearerLower
    THEN Refused("bad_format")
    ELSE LET d == decode_access_token(header.token)
         IN IF ~d.ok THEN Refused(d.error)
            ELSE [ok |-> TRUE,
                  current_user |-> Account(d.payload.user_uuid, Empty, Empty, TRUE)]

\* the open-gate bug: a header without a token reaches the operation as Ana
auth_required_open(header) ==
    IF header.parts = 0
    THEN [ok |-> TRUE, current_user |-> Account(Ana, AnaName, AnaEmail, TRUE)]
    ELSE IF header.parts = 1 \/ Lower(header.scheme) # BearerLower
    THEN Refused("bad_format")
    ELSE LET d == decode_access_token(header.token)
             found == {u \in users : u.uuid = d.payload.user_uuid}
         IN IF ~d.ok THEN Refused(d.error)
            ELSE IF found = {} THEN Refused("user_not_found")
            ELSE [ok |-> TRUE, current_user |-> CHOOSE u \in found : TRUE]

\* a stricter variant: the gate also turns away deactivated and locked
\* accounts
auth_required_in_good_standing(header) ==
    IF header.parts = 0 THEN Refused("token_required")
    ELSE IF header.parts = 1 \/ Lower(header.scheme) # BearerLower
    THEN Refused("bad_format")
    ELSE LET d == decode_access_token(header.token)
             found == {u \in users : u.uuid = d.payload.user_uuid}
         IN IF ~d.ok THEN Refused(d.error)
            ELSE IF found = {} THEN Refused("user_not_found")
            ELSE IF \E u \in found :
                       ~u.is_active \/ \E a \in AuthOf(u.uuid) : a.is_locked
            THEN Refused("account_disabled")
            ELSE [ok |-> TRUE, current_user |-> CHOOSE u \in found : TRUE]

\* auth_required, up to the call of the wrapped operation
auth_required(header) ==
    IF header.parts = 0 THEN Refused("token_required")
    ELSE IF header.parts = 1 \/ Lower(header.scheme) # BearerLower
    THEN Refused("bad_format")
    ELSE LET d == decode_access_token(header.token)
             found == {u \in users : u.uuid = d.payload.user_uuid}
         IN IF ~d.ok THEN Refused(d.error)
            ELSE IF found = {} THEN Refused("user_not_found")
            ELSE [ok |-> TRUE, current_user |-> CHOOSE u \in found : TRUE]

\* a request to a protected route: its header and its JSON body
Request(header, data) == [header |-> header, data |-> data]

NoData == [keys |-> {}]

\* the answer of auth_required when it refuses: the wrapped operation is not
\* called
Refuse(op, header, data, gate) ==
    /\ resp' = Response(op, Empty, Request(header, data), gate.code, gate.msg, NoRow)
    /\ UNCHANGED <<users, auth_local, friendships, inflight, streak, pair, now,
                   tokens, logged_out, login_committed>>

\* GET /users/me
GetMyProfile(header) ==
    LET gate == auth_required(header)
    IN IF ~gate.ok THEN Refuse("get_my_profile", header, NoData, gate)
       ELSE /\ resp' = Response("get_my_profile", gate.current_user.uuid,
                                Request(header, NoData), 200, "profile", NoRow)
            /\ UNCHANGED <<users, auth_local, friendships, inflight, streak, pair,
                           now, tokens, logged_out, login_committed>>

\* logout: the header must start with 'Bearer ' exactly; the token is only
\* decoded
logout(header) ==
    IF header.parts # 2 \/ header.scheme # Bearer
    THEN [code |-> 401, msg |-> "token_required"]
    ELSE IF ~decode_access_token(header.token).ok
    THEN [code |-> 401, msg |-> "invalid_token"]
    ELSE [code |-> 200, msg |-> "logged_out"]

\* POST /auth/logout
Logout(header) ==
    LET out == logout(header)
    IN /\ resp' = Response("logout", Empty, Request(header, NoData), out.code,
                           out.msg, NoRow)
       /\ logged_out' = IF out.code = 200 THEN logged_out \cup {header.token}
                        ELSE logged_out
       /\ UNCHANGED <<users, auth_local, friendships, inflight, streak, pair, now,
                      tokens, login_committed>>

\* time passes
Tick ==
    /\ now + ClockStep <= MaxClock
    /\ now' = now + ClockStep
    /\ UNCHANGED <<users, auth_local, friendships, inflight, resp, streak, pair,
                   tokens, logged_out, login_committed>>

----------------------------------------------------------------------------
(* security.py: the password policy and the age check                      *)

HasAny(str, codes) == \E i \in 1..Len(str) : str[i] \in codes

\* the characters of the class [!@#$%^&*(),.?":{}|<>] that strings here use
Specials == {40, 41, 42, 43, 44}

Policy(ok, msg) == [ok |-> ok, msg |-> msg]

is_valid_password(password) ==
    IF password = Empty \/ Len(password) < 8 THEN Policy(FALSE, "too_short")
    ELSE IF ~HasAny(password, 1..26) THEN Policy(FALSE, "no_lowercase")
    ELSE IF ~HasAny(password, 101..126) THEN Policy(FALSE, "no_uppercase")
    ELSE IF ~HasAny(password, 50..59) THEN Policy(FALSE, "no_digit")
    ELSE IF ~HasAny(password, Specials) THEN Policy(FALSE, "no_special")
    ELSE Policy(TRUE, "valid")

\* a birth_date as the body gives it: absent, text that strptime refuses, or
\* a date
NoDate == [given |-> FALSE, parses |-> FALSE, year |-> 0, month |-> 0, day |-> 0]
BadDate == [given |-> TRUE, parses |-> FALSE, year |-> 0, month |-> 0, day |-> 0]
Date(year, month, day) ==
    [given |-> TRUE, parses |-> TRUE, year |-> year, month |-> month, day |-> day]

\* date.today()
Today == Date(2026, 11, 3)

\* the year-only bug: the birthday within the year is not looked at
is_adult_by_year(birth_date) == Today.year - birth_date.year >= 18

is_adult(birth_date) ==
    LET age == Today.year - birth_date.year
        before_birthday ==
            \/ Today.month < birth_date.month
            \/ (Today.month = birth_date.month /\ Today.day < birth_date.day)
    IN (IF before_birthday THEN age - 1 ELSE age) >= 18

----------------------------------------------------------------------------
(* models/user.py: the unique indexes; routes/users.py: update_my_profile  *)

\* the missing-index bug: the table takes any username and email
UsersUnique_unchecked(table, row) == TRUE

\* unique=True on users.username and users.email (and the primary key)
UsersUnique(table, row) ==
    \A u \in table :
        u.uuid # row.uuid => (u.username # row.username /\ u.email # row.email)

Updatable == {"first_name", "last_name", "email", "birth_date", "username", "password"}

\* the JSON body of PATCH /users/me: its keys and their values
Data(keys, username, email, password, birth_date, first_name) ==
    [keys |-> keys, username |-> username, email |-> email, password |-> password,
     birth_date |-> birth_date, first_name |-> first_name, last_name |-> first_name]

ProfileOutcome(code, msg, write) ==
    [code |-> code, msg |-> msg, friendship |-> NoRow, write |-> write]

\* the unit of work of update_my_profile: the columns of the users row that
\* changed, and the credential's new digest
ProfileWrite(current_user, changes, auth) ==
    [kind |-> "profile", user |-> UpdateOf(current_user, changes), auth |-> auth]

\* a persisting variant: what a refused request had assigned is written
session_remove_commits(write) == write

\* a return without db.session.commit(): the session is removed when the
\* request ends and its unit of work is rolled back
session_remove(write) == NoWrite

\* the body of update_my_profile up to its db.session.commit(); a refusal
\* returns with the attributes assigned so far still in the session
update_my_profile(current_user, data) ==
    LET keys == data.keys
        email == Lower(Strip(data.email))
        username == Strip(data.username)
        creds == AuthOf(current_user.uuid)
        assigned(fields) ==
            [c \in {"username", "email"} |->
                IF c = "email"
                THEN IF "email" \in keys \cap fields THEN email ELSE current_user.email
                ELSE IF "username" \in keys \cap fields THEN username
                     ELSE current_user.username]
        changes == assigned({"email", "username"})
        dirty(fields) ==
            session_remove(ProfileWrite(current_user, assigned(fields), NoWrite))
        auth == IF "password" \in keys /\ creds # {}
                THEN UpdateOf(CHOOSE a \in creds : TRUE,
                              [password_hash |-> hash_password(data.password)])
                ELSE NoWrite
    IN
    IF keys = {} THEN ProfileOutcome(400, "data_required", NoWrite)
    ELSE IF keys \cap Updatable = {} THEN ProfileOutcome(400, "invalid_fields", NoWrite)
    ELSE IF "email" \in keys /\ (email = Empty \/ ~HasAny(email, {40}))
    THEN ProfileOutcome(422, "invalid_email", NoWrite)
    ELSE IF /\ "email" \in keys
            /\ email # Lower(current_user.email)
            /\ \E u \in users : u.email = email
    THEN ProfileOutcome(409, "email_taken", NoWrite)
    ELSE IF "username" \in keys /\ (username = Empty \/ Len(username) < 3)
    THEN ProfileOutcome(422, "invalid_username", dirty({"email"}))
    ELSE IF /\ "username" \in keys
            /\ username # current_user.username
            /\ \E u \in users : u.username = username
    THEN ProfileOutcome(409, "username_taken", dirty({"email"}))
    ELSE IF "birth_date" \in keys /\ ~data.birth_date.parses
    THEN ProfileOutcome(422, "invalid_date", dirty({"email", "username"}))
    ELSE IF "birth_date" \in keys /\ ~is_adult(data.birth_date)
    THEN ProfileOutcome(422, "under_age", dirty({"email", "username"}))
    ELSE IF "first_name" \in keys /\ Len(Strip(data.first_name)) > 100
    THEN ProfileOutcome(422, "first_name_too_long", dirty({"email", "username"}))
    ELSE IF "last_name" \in keys /\ Len(Strip(data.last_name)) > 100
    THEN ProfileOutcome(422, "last_name_too_long", dirty({"email", "username"}))
    ELSE IF "password" \in keys /\ ~is_valid_password(data.password).ok
    THEN ProfileOutcome(422, "invalid_password", dirty({"email", "username"}))
    ELSE ProfileOutcome(200, "profile_updated",
                        ProfileWrite(current_user, changes, auth))

\* PATCH /users/me up to the commit: the gate, then the wrapped operation
UpdateMyProfile(header, data) ==
    LET gate == auth_required(header)
        out == update_my_profile(gate.current_user, data)
    IN IF ~gate.ok THEN Refuse("update_my_profile", header, data, gate)
       ELSE Handle("update_my_profile", gate.current_user.uuid,
                   Request(header, data), out)

\* db.session.commit() of update_my_profile and the handler's return, or its
\* except IntegrityError clause
CommitProfile(h) ==
    LET w == h.write
        rows == {u \in users : u.uuid = w.user.loaded.uuid}
        old == CHOOSE u \in rows : TRUE
        new == SetColumns(old, w.user.set)
    IN
    /\ BagIn(h, inflight)
    /\ h.op = "update_my_profile"
    /\ inflight' = inflight (-) SetToBag({h})
    /\ IF rows = {}
       THEN \* StaleDataError: rollback
            /\ resp' = Response(h.op, h.actor, h.body, 500, "internal_error", NoRow)
            /\ UNCHANGED <<users, auth_local>>
       ELSE IF ~UsersUnique(users, new)
       THEN \* IntegrityError: rollback
            /\ resp' = Response(h.op, h.actor, h.body, 409, "unique_error", NoRow)
            /\ UNCHANGED <<users, auth_local>>
       ELSE /\ users' = (users \ {old}) \cup {new}
            /\ auth_local' = CommitAuth(auth_local, w.auth)
            /\ resp' = Response(h.op, h.actor, h.body, h.code, h.msg, NoRow)
    /\ UNCHANGED <<friendships, streak, pair, now, tokens, logged_out, login_committed>>

----------------------------------------------------------------------------
(* routes/auth.py: register                                                *)

\* the JSON body of POST /auth/register
RegisterBody(username, email, password, first_name, last_name, birth_date) ==
    [json |-> TRUE, username |-> username, email |-> email, password |-> password,
     first_name |-> first_name, last_name |-> last_name, birth_date |-> birth_date]

NoRegisterJson == [json |-> FALSE]

\* the uuids that uuid4 hands to the accounts registered next
NewIds == {<<3, 1>>, <<3, 2>>}

\* the account and the credential that register adds to the session
RegisterWrite(username, email, password) ==
    [kind |-> "register", username |-> username, email |-> email,
     password_hash |-> hash_password(password)]

\* the conflict-first bug: the existence check precedes the validations
register_conflict_first(body) ==
    LET username == Strip(body.username)
        email == Lower(Strip(body.email))
        existing == {u \in users : u.username = username \/ u.email = email}
        existing_user == CHOOSE u \in existing : TRUE
    IN
    IF ~body.json THEN ProfileOutcome(400, "no_json", NoWrite)
    ELSE IF \/ body.username = Empty \/ body.email = Empty \/ body.password = Empty
            \/ body.first_name = Empty \/ body.last_name = Empty
            \/ ~body.birth_date.given
    THEN ProfileOutcome(400, "missing_fields", NoWrite)
    ELSE IF ~body.birth_date.parses THEN ProfileOutcome(400, "invalid_date", NoWrite)
    ELSE IF existing # {}
    THEN IF existing_user.username = username
         THEN ProfileOutcome(409, "username_taken", NoWrite)
         ELSE ProfileOutcome(409, "email_taken", NoWrite)
    ELSE IF ~is_adult(body.birth_date) THEN ProfileOutcome(422, "under_age", NoWrite)
    ELSE IF ~is_valid_password(body.password).ok
    THEN ProfileOutcome(422, is_valid_password(body.password).msg, NoWrite)
    ELSE ProfileOutcome(201, "registered", RegisterWrite(username, email, body.password))

\* register up to db.session.flush()
register(body) ==
    LET username == Strip(body.username)
        email == Lower(Strip(body.email))
        existing == {u \in users : u.username = username \/ u.email = email}
        existing_user == CHOOSE u \in existing : TRUE
    IN
    IF ~body.json THEN ProfileOutcome(400, "no_json", NoWrite)
    ELSE IF \/ body.username = Empty \/ body.email = Empty \/ body.password = Empty
            \/ body.first_name = Empty \/ body.last_name = Empty
            \/ ~body.birth_date.given
    THEN ProfileOutcome(400, "missing_fields", NoWrite)
    ELSE IF ~body.birth_date.parses THEN ProfileOutcome(400, "invalid_date", NoWrite)
    ELSE IF ~is_adult(body.birth_date) THEN ProfileOutcome(422, "under_age", NoWrite)
    ELSE IF ~is_valid_password(body.password).ok
    THEN ProfileOutcome(422, is_valid_password(body.password).msg, NoWrite)
    ELSE IF existing # {}
    THEN IF existing_user.username = username
         THEN ProfileOutcome(409, "username_taken", NoWrite)
         ELSE ProfileOutcome(409, "email_taken", NoWrite)
    ELSE ProfileOutcome(201, "registered", RegisterWrite(username, email, body.password))

\* POST /auth/register up to db.session.flush()
Register(body) == Handle("register", Empty, body, register(body))

\* the half-registration bug: the flushed users row outlives the failure
rollback_keeps_flushed(before, flushed) == flushed

\* db.session.rollback(): the table as it was before the transaction
rollback(before, flushed) == before

\* the crash bug: the refused INSERT is answered as an internal error
register_integrity_error_crashes(body) ==
    Response("register", Empty, body, 500, "internal_error", NoRow)

\* except IntegrityError: the answer "El usuario o email ya existe"
register_integrity_error(body) ==
    Response("register", Empty, body, 409, "already_exists", NoRow)

\* flush (INSERT INTO users), INSERT INTO auth_local and commit, and the
\* handler's return or its except clauses.  The storage may fail between the
\* flush and the commit.
CommitRegister(h, storage_fails) ==
    LET w == h.write
        free == NewIds \ {u.uuid : u \in users}
        new_user == Account(CHOOSE i \in free : TRUE, w.username, w.email, TRUE)
        auth_row == [user_uuid |-> new_user.uuid, password_hash |-> w.password_hash,
                     login_attempts |-> 0, is_locked |-> FALSE]
        flushed == users \cup {new_user}
    IN
    /\ BagIn(h, inflight)
    /\ h.op = "register"
    /\ free # {}
    /\ inflight' = inflight (-) SetToBag({h})
    /\ IF ~UsersUnique(users, new_user)
       THEN \* IntegrityError at the flush
            /\ users' = rollback(users, users)
            /\ auth_local' = auth_local
            /\ resp' = register_integrity_error(h.body)
       ELSE IF storage_fails
       THEN /\ users' = rollback(users, flushed)
            /\ auth_local' = auth_local
            /\ resp' = Response(h.op, Empty, h.body, 500, "internal_error", NoRow)
       ELSE /\ users' = flushed
            /\ auth_local' = auth_local \cup {auth_row}
            /\ resp' = Response(h.op, new_user.uuid, h.body, h.code, h.msg, NoRow)
    /\ UNCHANGED <<friendships, streak, pair, now, tokens, logged_out, login_committed>>

----------------------------------------------------------------------------
(* Tokens over time: logins, logouts and protected requests while the      *)
(* clock advances                                                          *)

\* a token issued at time 0 to an account that was deleted from outside
StaleToken == TokenAt(Nadie, 0)

\* a token for Ana that somebody without the secret made
ForgedToken ==
    jwt_encode([user_uuid |-> Ana, exp |-> MaxClock + JWT_EXPIRES_MIN, iat |-> 0,
                type |-> "access_token"], "guessed-secret")

\* the headers a caller can send now
Headers ==
    {NoHeader, SchemeOnly(Bearer)}
    \cup {Header(s, t) : s \in {Bearer, BearerLower, BearerUpper, Basic},
                         t \in tokens \cup {BlankToken, GarbageToken, ForgedToken}}

TokenLogins == {LoginBody(AnaName, AnaPassword)}

InitToken ==
    /\ users = Directory
    /\ auth_local = Credentials
    /\ friendships = {}
    /\ inflight = EmptyBag
    /\ resp = NoResp
    /\ streak = [u \in {Ana, Beto} |-> 0]
    /\ pair = NoPair
    /\ now = 0
    /\ tokens = {StaleToken}
    /\ logged_out = {}
    /\ login_committed = NoWrite

NextToken ==
    \/ Tick
    \/ \E b \in TokenLogins : Login(b)
    \/ \E h \in Headers : Logout(h)
    \/ \E h \in Headers : GetMyProfile(h)

SpecToken == InitToken /\ [][NextToken]_vars

\* C15: a token issued at time t is good for JWT_EXPIRES_MIN = 60 minutes:
\* validation accepts it at t and at any time before t + 60, and refuses it
\* with the expiry error at any time after t + 60, on the one UTC clock.
C15_TokenLivesForTTL ==
    \A t \in tokens :
        LET d == decode_access_token(t)
        IN /\ t.payload.iat <= now
           /\ t.payload.exp = t.payload.iat + 60
           /\ now < t.payload.iat + 60 => d.ok
           /\ now > t.payload.iat + 60 => (~d.ok /\ d.error = "expired")

\* C15 witness: a token that a logout had validated is refused as expired
\* once more than its 60 minutes have passed.
C15_Witness ==
    /\ resp.op = "get_my_profile" /\ resp.code = 401 /\ resp.msg = "expired"
    /\ resp.body.header.token \in logged_out
    /\ resp.body.header.token.payload.user_uuid = Ana
    /\ now > resp.body.header.token.payload.iat + 60

\* a header that carries a correctly signed, unexpired access token
CarriesGoodToken(header) ==
    /\ header.parts = 2
    /\ Lower(header.scheme) = BearerLower
    /\ header.token.form = "jwt"
    /\ header.token.signed_with = JWT_SECRET
    /\ header.token.payload.exp > now
    /\ header.token.payload.type = "access_token"

\* C17: a request whose token is correctly signed and unexpired but names an
\* account that is not in the users table is refused by auth_required with
\* 401, and the protected operation does not run.
C17_StaleSubjectRefused ==
    [][(/\ resp' # resp
        /\ resp'.op = "get_my_profile"
        /\ CarriesGoodToken(resp'.body.header)
        /\ \A u \in users : u.uuid # resp'.body.header.token.payload.user_uuid)
       => /\ resp'.code = 401 /\ resp'.msg = "user_not_found"
          /\ resp'.actor = Empty
          /\ UNCHANGED <<users, auth_local, friendships, inflight>>]_vars

\* C17 witness: the token of the deleted account, still within its hour, was
\* refused because its account is gone.
C17_Witness ==
    /\ resp.op = "get_my_profile"
    /\ resp.body.header = Header(BearerLower, StaleToken)
    /\ now < StaleToken.payload.exp
    /\ resp.code = 401 /\ resp.msg = "user_not_found"

\* C18: logout changes no persistent state, and a token a logout was
\* answered 200 for is still accepted, until it expires, by validation and
\* by auth_required.
C18_LogoutKeepsTokenValid ==
    [][/\ (resp' # resp /\ resp'.op = "logout")
          => UNCHANGED <<users, auth_local, friendships, inflight, tokens>>
       /\ \A t \in logged_out :
             t.payload.exp > now => decode_access_token(t).ok
       /\ (/\ resp' # resp
           /\ resp'.op = "get_my_profile"
           /\ CarriesGoodToken(resp'.body.header)
           /\ resp'.body.header.token \in logged_out
           /\ \E u \in users : u.uuid = resp'.body.header.token.payload.user_uuid)
          => /\ resp'.code = 200
             /\ resp'.actor = resp'.body.header.token.payload.user_uuid]_vars

\* C18 witness: Ana logged out and, later but within the hour, the same
\* token opened the protected route.
C18_Witness ==
    /\ resp.op = "get_my_profile" /\ resp.code = 200 /\ resp.actor = Ana
    /\ resp.body.header.token \in logged_out
    /\ now > resp.body.header.token.payload.iat

----------------------------------------------------------------------------
(* The gate in front of a reading and a writing operation, an hour after   *)
(* the first tokens were issued                                            *)

\* the tokens callers hold: Ana's of an hour ago, Ana's of now, and one of
\* now for an account that was deleted since
GateTokens ==
    {TokenAt(Ana, 0), TokenAt(Ana, JWT_EXPIRES_MIN), TokenAt(Nadie, JWT_EXPIRES_MIN)}

\* {"username": "nadie"}
Rename == Data({"username"}, NadieName, Empty, Empty, NoDate, Empty)

\* the PATCH requests callers send: the rename under every header, and under
\* Ana's good token also {"username": "ana"}, {"avatar_url": ...} and {}
GateRequests ==
    {Request(h, Rename) : h \in Headers}
    \cup {Request(Header(Bearer, TokenAt(Ana, JWT_EXPIRES_MIN)), d) :
             d \in {Data({"username"}, AnaName, Empty, Empty, NoDate, Empty),
                    Data({"avatar_url"}, Empty, Empty, Empty, NoDate, Empty),
                    NoData}}

InitGate ==
    /\ users = Directory
    /\ auth_local = Credentials
    /\ friendships = {}
    /\ inflight = EmptyBag
    /\ resp = NoResp
    /\ streak = [u \in {Ana, Beto} |-> 0]
    /\ pair = NoPair
    /\ now = JWT_EXPIRES_MIN
    /\ tokens = GateTokens
    /\ logged_out = {}
    /\ login_committed = NoWrite

NextGate ==
    \/ \E h \in Headers : GetMyProfile(h)
    \/ \E r \in GateRequests : UpdateMyProfile(r.header, r.data)
    \/ \E h \in BagToSet(inflight) : CommitProfile(h)

SpecGate == InitGate /\ [][NextGate]_vars

\* the header is present, has the shape '<scheme> <token>' with the scheme
\* 'bearer' in any case, the token validates, and its subject is an account
Admissible(header) ==
    /\ CarriesGoodToken(header)
    /\ \E u \in users : u.uuid = header.token.payload.user_uuid

GateErrors ==
    {"token_required", "bad_format", "empty", "malformed", "expired", "wrong_type",
     "no_user_uuid", "user_not_found"}

Protected == {"get_my_profile", "update_my_profile"}

\* C16: auth_required calls the wrapped operation only for an admissible
\* header; for any other header it answers 401 with an authentication
\* error, the operation is not started and no state changes.
C16_GateAdmitsOnlyGoodHeaders ==
    [][/\ (/\ resp' # resp /\ inflight' = inflight
           /\ resp'.op \in Protected
           /\ ~Admissible(resp'.body.header))
          => /\ resp'.code = 401
             /\ resp'.msg \in GateErrors
             /\ resp'.actor = Empty
             /\ UNCHANGED <<users, auth_local, friendships, tokens>>
       /\ (/\ resp' # resp /\ inflight' = inflight
           /\ resp'.op \in Protected
           /\ Admissible(resp'.body.header))
          => /\ resp'.msg \notin GateErrors
             /\ resp'.actor = resp'.body.header.token.payload.user_uuid
       /\ \A h \in BagToSet(inflight') :
             (CopiesIn(h, inflight') > CopiesIn(h, inflight) /\ h.op \in Protected)
             => /\ Admissible(h.body.header)
                /\ h.actor = h.body.header.token.payload.user_uuid]_vars

\* C16 witness: a rename sent under the scheme Basic with Ana's good token
\* was refused and Ana is still called ana, while a rename sent properly is
\* waiting for its commit.
C16_Witness ==
    /\ resp.op = "update_my_profile"
    /\ resp.body = Request(Header(Basic, TokenAt(Ana, JWT_EXPIRES_MIN)), Rename)
    /\ resp.code = 401 /\ resp.msg = "bad_format"
    /\ \E u \in users : u.uuid = Ana /\ u.username = AnaName
    /\ \E h \in BagToSet(inflight) :
          h.op = "update_my_profile" /\ h.body.header.scheme = BearerUpper

----------------------------------------------------------------------------
(* The account directory under concurrent registrations and profile        *)
(* updates                                                                 *)

\* "carla", "carla@x.com", "CARLA@X.COM", "dani" and "dani@x.com"
CarlaName == <<3, 1, 18, 12, 1>>
CarlaEmail == <<3, 1, 18, 12, 1, 40, 24, 41, 3, 15, 13>>
CarlaEmailUpper == <<103, 101, 118, 112, 101, 40, 124, 41, 103, 115, 113>>
DaniName == <<4, 1, 14, 9>>
DaniEmail == <<4, 1, 14, 9, 40, 24, 41, 3, 15, 13>>

\* "Nuevo789#" and "short1!"
NewPassword == <<114, 21, 5, 22, 15, 57, 58, 59, 44>>
WeakPassword == <<19, 8, 15, 18, 20, 51, 42>>

AdultBirth == Date(2000, 1, 1)
MinorBirth == Date(2010, 1, 1)

Registration(username, email) ==
    RegisterBody(username, email, NewPassword, username, username, AdultBirth)

\* registrations that race for a username or for an email (in either case),
\* registrations of a taken username and of a taken email, and bodies the
\* validation refuses, with a free and with a taken username or email
RegisterBodies ==
    {Registration(CarlaName, CarlaEmail),
     Registration(CarlaName, DaniEmail),
     Registration(DaniName, CarlaEmailUpper),
     Registration(AnaNameSpaced, DaniEmail),
     Registration(DaniName, AnaEmailUpper),
     RegisterBody(DaniName, DaniEmail, WeakPassword, DaniName, DaniName, AdultBirth),
     RegisterBody(DaniName, DaniEmail, NewPassword, DaniName, DaniName, MinorBirth),
     RegisterBody(AnaName, DaniEmail, WeakPassword, DaniName, DaniName, AdultBirth),
     RegisterBody(DaniName, AnaEmailUpper, NewPassword, DaniName, DaniName, MinorBirth),
     RegisterBody(DaniName, DaniEmail, NewPassword, DaniName, DaniName, BadDate),
     RegisterBody(DaniName, DaniEmail, NewPassword, Empty, DaniName, AdultBirth),
     NoRegisterJson}

\* Ana's PATCH requests: {"username": "carla"}, {"email": "CARLA@X.COM"},
\* {"username": "beto"} and {"email": "carla"}
AccountRequests ==
    {Request(Header(Bearer, TokenAt(Ana, 0)), d) :
        d \in {Data({"username"}, CarlaName, Empty, Empty, NoDate, Empty),
               Data({"email"}, Empty, CarlaEmailUpper, Empty, NoDate, Empty),
               Data({"username"}, BetoName, Empty, Empty, NoDate, Empty),
               Data({"email"}, Empty, CarlaName, Empty, NoDate, Empty)}}

InitAccounts ==
    /\ users = Directory
    /\ auth_local = Credentials
    /\ friendships = {}
    /\ inflight = EmptyBag
    /\ resp = NoResp
    /\ streak = [u \in {Ana, Beto} |-> 0]
    /\ pair = NoPair
    /\ now = 0
    /\ tokens = {TokenAt(Ana, 0)}
    /\ logged_out = {}
    /\ login_committed = NoWrite

NextAccounts ==
    \/ \E b \in RegisterBodies : Register(b)
    \/ \E h \in BagToSet(inflight), storage_fails \in BOOLEAN :
          CommitRegister(h, storage_fails)
    \/ \E r \in AccountRequests : UpdateMyProfile(r.header, r.data)
    \/ \E h \in BagToSet(inflight) : CommitProfile(h)

SpecAccounts == InitAccounts /\ [][NextAccounts]_vars

\* C19: every account has exactly one credential and every credential
\* belongs to an account, whatever registrations succeeded, were refused or
\* failed after the flush.
C19_AccountPairedWithCredential ==
    /\ \A u \in users : Cardinality(AuthOf(u.uuid)) = 1
    /\ \A a \in auth_local : \E u \in users : u.uuid = a.user_uuid

\* C19 witness: one registration went through, and the latest one failed
\* after its flush and left no row of the account it was creating.
C19_Witness ==
    /\ resp.op = "register" /\ resp.code = 500
    /\ resp.body = Registration(CarlaName, DaniEmail)
    /\ \A u \in users : u.username # CarlaName /\ u.email # DaniEmail
    /\ Cardinality(users) = 3
    /\ Cardinality(auth_local) = 3

\* C20: no two accounts share a username, and no two share an email even
\* when case is ignored.
C20_UsernameAndEmailUnique ==
    \A u1, u2 \in users :
        u1 # u2 => /\ u1.uuid # u2.uuid
                   /\ u1.username # u2.username
                   /\ Lower(u1.email) # Lower(u2.email)

\* C20 witness: Ana renamed herself carla and took carla's email while a
\* registration of carla was under way, and the registration lost: it was
\* answered "already exists".
C20_Witness ==
    /\ resp.op = "register" /\ resp.code = 409 /\ resp.msg = "already_exists"
    /\ resp.body = Registration(CarlaName, CarlaEmail)
    /\ \E u \in users : u.uuid = Ana /\ u.username = CarlaName /\ u.email = CarlaEmail

\* the accounts that hold the username or the email a registration asks for
Holders(table, write) ==
    {u \in table : u.username = write.username \/ u.email = write.email}

\* C21: a registration that passed the existence pre-check and finds, at
\* its INSERT, the username or the email taken by a request that committed
\* in between is answered 409 "already exists", not an internal error, and
\* stores nothing: the name and the email stay with the one row that won.
C21_RegisterRaceLoserGetsConflict ==
    [][\A h \in BagToSet(inflight) :
          (Committed(h) /\ h.op = "register" /\ Holders(users, h.write) # {})
          => /\ resp'.code = 409 /\ resp'.msg = "already_exists"
             /\ resp'.op = "register" /\ resp'.body = h.body
             /\ users' = users /\ auth_local' = auth_local
             /\ Cardinality({u \in users' : u.username = h.write.username}) <= 1
             /\ Cardinality({u \in users' : u.email = h.write.email}) <= 1]_vars

\* C21 witness: two registrations of the username carla both passed the
\* pre-check; the one with carla's email was stored, and the other was
\* answered "already exists".
C21_Witness ==
    /\ resp.op = "register" /\ resp.code = 409 /\ resp.msg = "already_exists"
    /\ resp.body = Registration(CarlaName, DaniEmail)
    /\ Cardinality({u \in users : u.username = CarlaName}) = 1
    /\ \E u \in users :
          u.uuid \in NewIds /\ u.username = CarlaName /\ u.email = CarlaEmail
    /\ \A u \in users : u.email # DaniEmail

\* a registration body with every required field, and a date that parses
Complete(b) ==
    /\ b.json
    /\ Empty \notin {b.username, b.email, b.password, b.first_name, b.last_name}
    /\ b.birth_date.given /\ b.birth_date.parses

\* the age check or the password policy refuses the body
FailsValidation(b) ==
    Complete(b) /\ (~is_adult(b.birth_date) \/ ~is_valid_password(b.password).ok)

\* C26: a registration with an under-age birth date or a password the
\* policy refuses is answered with the validation failure 422, never 409,
\* whether or not its username or email is taken, and stores and queues
\* nothing; every 409 answers a body that passed both validations.
C26_ValidationBeforeConflict ==
    [][/\ (AnsweredAtOnce("register") /\ FailsValidation(resp'.body))
          => /\ resp'.code = 422
             /\ resp'.msg = IF ~is_adult(resp'.body.birth_date) THEN "under_age"
                            ELSE is_valid_password(resp'.body.password).msg
             /\ users' = users /\ auth_local' = auth_local
       /\ \A h \in BagToSet(inflight') :
             (Queued(h) /\ h.op = "register") => ~FailsValidation(h.body)
       /\ (resp' # resp /\ resp'.op = "register" /\ resp'.code = 409)
          => (Complete(resp'.body) /\ ~FailsValidation(resp'.body))]_vars

\* C26 witness: a third account was registered, and a registration under
\* Ana's email with an under-age birth date was refused for the age, not
\* for the email.
C26_Witness ==
    /\ resp.op = "register" /\ resp.code = 422 /\ resp.msg = "under_age"
    /\ resp.body.birth_date = MinorBirth
    /\ \E u \in users : u.email = Lower(Strip(resp.body.email))
    /\ Cardinality(users) = 3 /\ Cardinality(auth_local) = 3

----------------------------------------------------------------------------
(* Registrations with birth dates on both sides of the eighteenth birthday *)

\* the calendar: the days of a month, the day before and the day after
DaysIn(year, month) ==
    IF month = 2
    THEN IF year % 4 = 0 /\ (year % 100 # 0 \/ year % 400 = 0) THEN 29 ELSE 28
    ELSE IF month \in {4, 6, 9, 11} THEN 30 ELSE 31

PrevDay(d) ==
    IF d.day > 1 THEN Date(d.year, d.month, d.day - 1)
    ELSE IF d.month > 1 THEN Date(d.year, d.month - 1, DaysIn(d.year, d.month - 1))
    ELSE Date(d.year - 1, 12, 31)

NextDay(d) ==
    IF d.day < DaysIn(d.year, d.month) THEN Date(d.year, d.month, d.day + 1)
    ELSE IF d.month < 12 THEN Date(d.year, d.month + 1, 1)
    ELSE Date(d.year + 1, 1, 1)

\* d is a later day than e
Later(d, e) ==
    \/ d.year > e.year
    \/ d.year = e.year /\ d.month > e.month
    \/ d.year = e.year /\ d.month = e.month /\ d.day > e.day

\* the day exactly 18 years before today
EighteenYearsAgo == Date(Today.year - 18, Today.month, Today.day)

\* the birth dates callers register with: that day, the day before it, the
\* day after it, and the same day of the months and years around it
BirthDates ==
    {EighteenYearsAgo, PrevDay(EighteenYearsAgo), NextDay(EighteenYearsAgo)}
    \cup {Date(EighteenYearsAgo.year + y, 10 + m, EighteenYearsAgo.day) :
              y \in {-1, 0, 1}, m \in {0, 1, 2}}

BirthBodies ==
    {RegisterBody(CarlaName, CarlaEmail, NewPassword, CarlaName, CarlaName, d) :
        d \in BirthDates}

NextAge ==
    \/ \E b \in BirthBodies : Register(b)
    \/ \E h \in BagToSet(inflight), storage_fails \in BOOLEAN :
          CommitRegister(h, storage_fails)

SpecAge == InitAccounts /\ [][NextAge]_vars

\* the registration answered at once was refused for the age
RefusedForAge == resp'.code = 422 /\ resp'.msg = "under_age"

\* C27 as claimed: a registration born exactly 18 years ago passes the age
\* check, and one born the day before that day is refused for the age.
C27_Original ==
    [][/\ (AnsweredAtOnce("register")
           /\ resp'.body.birth_date = EighteenYearsAgo) => ~RefusedForAge
       /\ (AnsweredAtOnce("register")
           /\ resp'.body.birth_date = PrevDay(EighteenYearsAgo)) => RefusedForAge
       /\ \A h \in BagToSet(inflight') :
             (Queued(h) /\ h.op = "register")
             => h.body.birth_date # PrevDay(EighteenYearsAgo)]_vars

\* C27 amended: a registration passes the age check exactly when its birth
\* date is not later than the day 18 years before today: born that day or
\* the day before it passes, born the day after it (18 years less one day
\* old) is refused with the age failure 422.
C27_EighteenthBirthdayIsTheBoundary ==
    [][/\ (AnsweredAtOnce("register")
           /\ ~Later(resp'.body.birth_date, EighteenYearsAgo)) => ~RefusedForAge
       /\ (AnsweredAtOnce("register")
           /\ Later(resp'.body.birth_date, EighteenYearsAgo))
          => (RefusedForAge /\ users' = users /\ auth_local' = auth_local)
       /\ \A h \in BagToSet(inflight') :
             (Queued(h) /\ h.op = "register")
             => ~Later(h.body.birth_date, EighteenYearsAgo)]_vars

\* C27 witness: the registration born exactly 18 years ago was stored, and
\* the one born a day later was refused for the age.
C27_Witness ==
    /\ resp.op = "register" /\ resp.code = 422 /\ resp.msg = "under_age"
    /\ resp.body.birth_date = NextDay(EighteenYearsAgo)
    /\ \E u \in users : u.username = CarlaName
    /\ \E h \in BagToSet(inflight) :
          h.op = "register" /\ h.body.birth_date = EighteenYearsAgo

----------------------------------------------------------------------------
(* The lockout flag under every operation that touches an account, with    *)
(* the handlers interleaved                                                *)

\* login up to its db.session.commit(): an answer at once when nothing was
\* changed, else the handler stops before the commit
LoginRead(body) ==
    LET out == login(body)
    IN IF out.write.kind = "none"
       THEN /\ resp' = Response("login", Empty, body, out.code, out.msg, NoRow)
            /\ UNCHANGED <<users, auth_local, friendships, inflight, streak, pair,
                           now, tokens, logged_out, login_committed>>
       ELSE /\ BagCardinality(inflight) < MaxInFlight
            /\ inflight' = inflight (+) SetToBag({
                   [op |-> "login", actor |-> out.user_uuid, body |-> body,
                    code |-> out.code, msg |-> out.msg, write |-> out.write]})
            /\ UNCHANGED <<users, auth_local, friendships, resp, streak, pair,
                           now, tokens, logged_out, login_committed>>

\* db.session.commit() of login, then the token and the answer
CommitLogin(h) ==
    LET token == IF h.code = 200 THEN make_access_token(h.actor) ELSE NoToken
    IN
    /\ BagIn(h, inflight)
    /\ h.op = "login"
    /\ h.code = 200 => Cardinality(tokens \cup {token}) <= MaxTokens
    /\ inflight' = inflight (-) SetToBag({h})
    /\ auth_local' = CommitAuth(auth_local, h.write)
    /\ resp' = [Response("login", Empty, h.body, h.code, h.msg, NoRow)
                   EXCEPT !.access_token = token]
    /\ tokens' = IF h.code = 200 THEN tokens \cup {token} ELSE tokens
    /\ UNCHANGED <<users, friendships, streak, pair, now, logged_out, login_committed>>

LockLogins == {LoginBody(AnaName, AnaPassword), LoginBody(AnaName, WrongPassword)}

\* Ana's PATCH {"password": "Nuevo789#"} and her logout
AnaHeader == Header(Bearer, TokenAt(Ana, 0))
LockRequests ==
    {Request(AnaHeader, Data({"password"}, Empty, Empty, NewPassword, NoDate, Empty))}

InitLock ==
    /\ users = Directory
    /\ auth_local = Credentials
    /\ friendships = {}
    /\ inflight = EmptyBag
    /\ resp = NoResp
    /\ streak = [u \in {Ana, Beto} |-> 0]
    /\ pair = NoPair
    /\ now = 0
    /\ tokens = {TokenAt(Ana, 0)}
    /\ logged_out = {}
    /\ login_committed = NoWrite

NextLock ==
    \/ \E b \in LockLogins : LoginRead(b)
    \/ \E h \in BagToSet(inflight) : CommitLogin(h)
    \/ \E r \in LockRequests : UpdateMyProfile(r.header, r.data)
    \/ \E h \in BagToSet(inflight) : CommitProfile(h)
    \/ Logout(AnaHeader)
    \/ SendRequest(Ana, Body(Beto))
    \/ \E h \in BagToSet(inflight) : CommitFriendship(h)

SpecLock == InitLock /\ [][NextLock]_vars

\* C14: once an account's is_locked is set, no login (with the right or a
\* wrong password), profile update, password change, logout or friend
\* operation clears it or removes the credential: it is set in every later
\* state.
C14_LockoutPermanent ==
    [][\A a \in auth_local :
          a.is_locked =>
             /\ \E b \in auth_local' : b.user_uuid = a.user_uuid
             /\ \A b \in auth_local' : b.user_uuid = a.user_uuid => b.is_locked]_vars

\* C14 witness: Ana's account was locked while a login with her right
\* password was under way; that login then committed its reset of the
\* counter, she changed her password, logged out and sent a friend request,
\* and the account is still locked.
C14_Witness ==
    /\ Locked(Ana)
    /\ \A a \in AuthOf(Ana) :
          a.login_attempts = 0 /\ a.password_hash = hash_password(NewPassword)
    /\ TokenAt(Ana, 0) \in logged_out
    /\ friendships # {}
    /\ resp.op = "update_my_profile" /\ resp.code = 200

\* C23: every failed login on a non-locked account adds exactly one to the
\* stored counter, however the attempts interleave, so the fifth failure
\* locks the account.
C23_CounterCountsEveryFailure ==
    [][\A h \in BagToSet(inflight) :
          (Committed(h) /\ h.op = "login" /\ h.code = 401)
          => \A a \in AuthOf(h.actor) :
                ~a.is_locked
                => \E b \in auth_local' :
                      /\ b.user_uuid = a.user_uuid
                      /\ b.login_attempts = a.login_attempts + 1
                      /\ b.login_attempts >= LockThreshold => b.is_locked]_vars

----------------------------------------------------------------------------
(* routes/friends.py: GET /friends, the caller's relationships             *)

\* the status column as the characters the query string is compared with
StatusText ==
    [pending  |-> <<16, 5, 14, 4, 9, 14, 7>>,
     accepted |-> <<1, 3, 3, 5, 16, 20, 5, 4>>,
     rejected |-> <<18, 5, 10, 5, 3, 20, 5, 4>>,
     removed  |-> <<18, 5, 13, 15, 22, 5, 4>>]

valid_statuses == {StatusText[st] : st \in Statuses}

\* "none", the filter_applied of an unfiltered listing
NoneText == <<14, 15, 14, 5>>

\* request.args: with or without a status parameter
NoArgs == [has_status |-> FALSE, status |-> Empty]
Args(status) == [has_status |-> TRUE, status |-> status]

NoUser == [uuid |-> Empty]

Listing(code, msg, entries, filter_applied) ==
    [code |-> code, msg |-> msg, friendships |-> entries,
     count |-> Cardinality(entries), filter_applied |-> filter_applied]

\* friendship.to_dict(current_user.uuid) with the other member's public data
ListEntry(f, current_user) ==
    LET d == to_dict(f, current_user)
        found == {u \in users : u.uuid = get_other_user_id(f, current_user)}
    IN [user_low_id |-> d.user_low_id,
        user_high_id |-> d.user_high_id,
        status |-> d.status,
        requested_by_id |-> d.requested_by_id,
        other_user_id |-> d.other_user_id,
        requested_by_me |-> d.requested_by_me,
        other_user |-> IF found = {} THEN NoUser
                       ELSE LET u == CHOOSE u \in found : TRUE
                            IN [uuid |-> u.uuid, username |-> u.username]]

\* a one-column variant: only rows that hold the caller as user_low_id
list_friendships_low_only(current_user, args) ==
    LET status_filter == Lower(Strip(IF args.has_status THEN args.status ELSE Empty))
        query == {f \in friendships : f.user_low_id = current_user}
        rows == IF status_filter # Empty
                THEN {f \in query : StatusText[f.status] = status_filter}
                ELSE query
    IN IF status_filter # Empty /\ status_filter \notin valid_statuses
       THEN Listing(400, "invalid_status", {}, NoneText)
       ELSE Listing(200, "listed", {ListEntry(f, current_user) : f \in rows},
                    IF status_filter # Empty THEN status_filter ELSE NoneText)

\* an unfiltered variant: the status parameter is validated and then ignored
list_friendships_unfiltered(current_user, args) ==
    LET status_filter == Lower(Strip(IF args.has_status THEN args.status ELSE Empty))
        query == {f \in friendships : \/ f.user_low_id = current_user
                                      \/ f.user_high_id = current_user}
    IN IF status_filter # Empty /\ status_filter \notin valid_statuses
       THEN Listing(400, "invalid_status", {}, NoneText)
       ELSE Listing(200, "listed", {ListEntry(f, current_user) : f \in query},
                    IF status_filter # Empty THEN status_filter ELSE NoneText)

\* the listing is a set: the ORDER BY updated_at of the query is left out,
\* rows carry no timestamps here
list_friendships(current_user, args) ==
    LET status_filter == Lower(Strip(IF args.has_status THEN args.status ELSE Empty))
        query == {f \in friendships : \/ f.user_low_id = current_user
                                      \/ f.user_high_id = current_user}
        rows == IF status_filter # Empty
                THEN {f \in query : StatusText[f.status] = status_filter}
                ELSE query
    IN IF status_filter # Empty /\ status_filter \notin valid_statuses
       THEN Listing(400, "invalid_status", {}, NoneText)
       ELSE Listing(200, "listed", {ListEntry(f, current_user) : f \in rows},
                    IF status_filter # Empty THEN status_filter ELSE NoneText)

ListFriendships(current_user, args) ==
    LET out == list_friendships(current_user, args)
    IN /\ resp' = [op |-> "list", actor |-> current_user, body |-> args,
                   code |-> out.code, msg |-> out.msg, friendship |-> NoRow,
                   access_token |-> NoToken, friendships |-> out.friendships,
                   count |-> out.count, filter_applied |-> out.filter_applied]
       /\ UNCHANGED <<users, auth_local, friendships, inflight, streak, pair,
                      now, tokens, logged_out, login_committed>>

----------------------------------------------------------------------------
(* Listing over every table three accounts can have built                  *)

Caro == <<3, 1>>

Trio == Directory \cup {Account(Caro, CarlaName, CarlaEmail, TRUE)}

\* what the table may hold for the pair low < high: nothing, or one row in
\* any status requested by either member
PairStates(low, high) ==
    {{}} \cup {{[user_low_id |-> low, user_high_id |-> high,
                 status |-> st, requested_by_id |-> r]} :
               st \in Statuses, r \in {low, high}}

Tables ==
    {ab \cup ac \cup bc : ab \in PairStates(Ana, Beto),
                          ac \in PairStates(Ana, Caro),
                          bc \in PairStates(Beto, Caro)}

\* " ACCEPTED ": padded and in capitals
AcceptedShouted == <<Blank, 101, 103, 103, 105, 116, 120, 105, 104, Blank>>
\* "friends": not a status
NotAStatus == <<6, 18, 9, 5, 14, 4, 19>>

ListArgs ==
    {NoArgs, Args(Empty), Args(AcceptedShouted), Args(NotAStatus)}
    \cup {Args(StatusText[st]) : st \in Statuses}

InitList ==
    /\ users = Trio
    /\ auth_local = Credentials
    /\ friendships \in Tables
    /\ inflight = EmptyBag
    /\ resp = NoResp
    /\ streak = [u \in {Ana, Beto} |-> 0]
    /\ pair = NoPair
    /\ now = 0
    /\ tokens = {}
    /\ logged_out = {}
    /\ login_committed = NoWrite

NextList == \E u \in users, a \in ListArgs : ListFriendships(u.uuid, a)

SpecList == InitList /\ [][NextList]_vars

\* the statuses a listing request asks for: the one its status parameter
\* names, every status when it has none (or a blank one)
Wanted(args) ==
    IF ~args.has_status \/ Strip(args.status) = Empty THEN Statuses
    ELSE {st \in Statuses : StatusText[st] = Lower(Strip(args.status))}

\* the four stored columns of a listing entry
StoredRow(e) ==
    [user_low_id |-> e.user_low_id, user_high_id |-> e.user_high_id,
     status |-> e.status, requested_by_id |-> e.requested_by_id]

\* C33: a listing answered 200 for caller U holds exactly the rows that
\* have U as user_low_id or user_high_id and, when a status filter is
\* given, that status (so no row between two other users); each entry's
\* other_user_id is the pair member that is not U, and its requested_by_me
\* is true iff requested_by_id is U.
C33_ListingIsTheCallersRows ==
    (resp.op = "list" /\ resp.code = 200)
    => /\ {StoredRow(e) : e \in resp.friendships}
          = {f \in friendships : /\ resp.actor \in {f.user_low_id, f.user_high_id}
                                 /\ f.status \in Wanted(resp.body)}
       /\ resp.count = Cardinality(resp.friendships)
       /\ \A e \in resp.friendships :
             /\ {e.other_user_id, resp.actor} = {e.user_low_id, e.user_high_id}
             /\ e.other_user_id # resp.actor
             /\ e.requested_by_me <=> (e.requested_by_id = resp.actor)

\* C33 witness: Beto, the greater id of one pair and the lesser of another,
\* asked for " ACCEPTED " and got his accepted row with Ana, requested by
\* him, and not his pending row with Caro nor the accepted row of Ana and
\* Caro.
C33_Witness ==
    /\ resp.op = "list" /\ resp.actor = Beto /\ resp.code = 200
    /\ resp.body = Args(AcceptedShouted)
    /\ resp.count = 1
    /\ \E e \in resp.friendships :
          e.other_user_id = Ana /\ e.requested_by_me /\ e.status = "accepted"
    /\ \E f \in friendships :
          f.user_low_id = Beto /\ f.user_high_id = Caro /\ f.status = "pending"
    /\ \E f \in friendships :
          f.user_low_id = Ana /\ f.user_high_id = Caro /\ f.status = "accepted"

----------------------------------------------------------------------------
(* Token validation, cause by cause: a caller presents each kind of bad    *)
(* token at the gate while the clock advances                              *)

\* a token of another kind, signed with the secret
RefreshToken ==
    jwt_encode([user_uuid |-> Ana, exp |-> MaxClock + JWT_EXPIRES_MIN, iat |-> 0,
                type |-> "refresh_token"], JWT_SECRET)

\* an access token without a subject, signed with the secret
NoSubjectToken ==
    jwt_encode([user_uuid |-> Empty, exp |-> MaxClock + JWT_EXPIRES_MIN, iat |-> 0,
                type |-> "access_token"], JWT_SECRET)

ReasonTokens ==
    {TokenAt(Ana, 0), ForgedToken, RefreshToken, NoSubjectToken, BlankToken,
     GarbageToken}

ReasonHeaders ==
    {Header(s, t) : s \in {Bearer, BearerLower, BearerUpper, Basic},
                    t \in ReasonTokens}

InitReasons ==
    /\ users = Directory
    /\ auth_local = Credentials
    /\ friendships = {}
    /\ inflight = EmptyBag
    /\ resp = NoResp
    /\ streak = [u \in {Ana, Beto} |-> 0]
    /\ pair = NoPair
    /\ now = 0
    /\ tokens = {TokenAt(Ana, 0)}
    /\ logged_out = {}
    /\ login_committed = NoWrite

NextReasons ==
    \/ Tick
    \/ \E h \in ReasonHeaders : GetMyProfile(h)
    \/ \E h \in ReasonHeaders : Logout(h)

SpecReasons == InitReasons /\ [][NextReasons]_vars

\* C34: validation names the cause of each failure: blank input is "empty",
\* a well-formed token whose signature does not verify is "bad_signature"
\* and not "malformed", a properly signed token past its exp is "expired",
\* one of another type is "wrong_type", and one without a subject is
\* "no_user_uuid".
C34_ReasonPerCause ==
    [][(resp' # resp /\ resp'.op = "get_my_profile")
       => LET t == resp'.body.header.token
          IN Lower(resp'.body.header.scheme) = BearerLower
             =>
             /\ t.form = "blank" => resp'.msg = "empty"
             /\ t.form = "garbage" => resp'.msg = "malformed"
             /\ (t.form = "jwt" /\ t.signed_with # JWT_SECRET)
                => resp'.msg = "bad_signature"
             /\ (t.form = "jwt" /\ t.signed_with = JWT_SECRET)
                => /\ t.payload.exp <= now => resp'.msg = "expired"
                   /\ (t.payload.exp > now /\ t.payload.type # "access_token")
                      => resp'.msg = "wrong_type"
                   /\ (t.payload.exp > now /\ t.payload.type = "access_token"
                       /\ t.payload.user_uuid = Empty)
                      => resp'.msg = "no_user_uuid"]_vars

----------------------------------------------------------------------------
(* Profile updates with several fields: Ana and Beto send PATCH requests   *)
(* whose later fields are refused, and requests that go through            *)

TooShort == <<3, 1>>

\* Ana's requests: a new email with a weak password, with a two-letter
\* username, with Beto's username, with a minor's birth date after a new
\* username, and with a date that does not parse; Beto's email alone; and
\* two that pass: a new username with a new password, and a new email
AnaUpdates ==
    {Request(Header(Bearer, TokenAt(Ana, 0)), d) :
        d \in {Data({"email", "password"}, Empty, CarlaEmailUpper, WeakPassword, NoDate, Empty),
               Data({"email", "username"}, TooShort, CarlaEmail, Empty, NoDate, Empty),
               Data({"email", "username"}, BetoName, CarlaEmail, Empty, NoDate, Empty),
               Data({"email", "username", "birth_date"}, CarlaName, CarlaEmail, Empty,
                    MinorBirth, Empty),
               Data({"email", "birth_date"}, Empty, CarlaEmail, Empty, BadDate, Empty),
               Data({"email"}, Empty, BetoEmail, Empty, NoDate, Empty),
               Data({"username", "password"}, CarlaName, Empty, NewPassword, NoDate, Empty),
               Data({"email"}, Empty, CarlaEmail, Empty, NoDate, Empty)}}

\* Beto's requests: the username Ana may be taking, alone and with a weak
\* password
BetoUpdates ==
    {Request(Header(Bearer, TokenAt(Beto, 0)), d) :
        d \in {Data({"username"}, CarlaName, Empty, Empty, NoDate, Empty),
               Data({"username", "password"}, CarlaName, Empty, WeakPassword, NoDate,
                    Empty)}}

NextProfile ==
    \/ \E r \in AnaUpdates \cup BetoUpdates : UpdateMyProfile(r.header, r.data)
    \/ \E h \in BagToSet(inflight) : CommitProfile(h)

SpecProfile == InitAccounts /\ [][NextProfile]_vars

\* C35: a profile update that is refused, by the validation of any field,
\* by a uniqueness test or by the unique index at commit, leaves the users
\* and credentials tables as they were, also when fields earlier in the
\* request were valid; only a request that passes every test holds a unit
\* of work.
C35_RefusedUpdatePersistsNothing ==
    [][/\ (resp' # resp /\ resp'.op = "update_my_profile" /\ resp'.code # 200)
          => (users' = users /\ auth_local' = auth_local)
       /\ AnsweredAtOnce("update_my_profile")
          => resp'.code \in {400, 401, 409, 422}
       /\ \A h \in BagToSet(inflight') :
             (Queued(h) /\ h.op = "update_my_profile")
             => (h.code = 200 /\ users' = users /\ auth_local' = auth_local)]_vars

\* C35 witness: Ana's new email was accepted by a first request and is
\* stored; her next request, a valid other email followed by a weak
\* password, was refused: the stored email is still the first one and her
\* credential still holds her old password.
C35_Witness ==
    /\ resp.op = "update_my_profile" /\ resp.actor = Ana
    /\ resp.code = 422 /\ resp.msg = "invalid_password"
    /\ resp.body.data.keys = {"email", "password"}
    /\ \E u \in users : u.uuid = Ana /\ u.email = AnaEmail /\ u.username = CarlaName
    /\ \A a \in AuthOf(Ana) : a.password_hash = hash_password(NewPassword)

----------------------------------------------------------------------------
(* Tokens held by accounts that lose their standing: Beto got his token    *)
(* before his account was deactivated from outside, Ana logs in and then   *)
(* fails until her account locks, and both keep calling GET /users/me      *)

HeldLogins ==
    {LoginBody(AnaName, AnaPassword), LoginBody(AnaName, WrongPassword),
     LoginBody(BetoName, BetoPassword)}

\* what callers present: the tokens issued so far, one for an account that
\* does not exist and a forged one
HeldHeaders == {Header(Bearer, t) : t \in tokens \cup {StaleToken, ForgedToken}}

InitHeld ==
    /\ users = AuthDirectory
    /\ auth_local = Credentials
    /\ friendships = {}
    /\ inflight = EmptyBag
    /\ resp = NoResp
    /\ streak = [u \in {Ana, Beto} |-> 0]
    /\ pair = NoPair
    /\ now = 0
    /\ tokens = {TokenAt(Beto, 0)}
    /\ logged_out = {}
    /\ login_committed = NoWrite

NextHeld ==
    \/ Tick
    \/ \E b \in HeldLogins : Login(b)
    \/ \E h \in HeldHeaders : GetMyProfile(h)

SpecHeld == InitHeld /\ [][NextHeld]_vars

\* C40: the gate admits a request exactly when its header carries a valid
\* token whose subject is an account, whatever that account's is_active,
\* is_locked and login_attempts are: a token issued before the account was
\* locked or deactivated is admitted until its exp, and refused from then
\* on.
C40_GateIgnoresStanding ==
    [][(resp' # resp /\ resp'.op = "get_my_profile")
       => /\ (resp'.code = 200) <=> Admissible(resp'.body.header)
          /\ resp'.code = 200
             => resp'.actor = resp'.body.header.token.payload.user_uuid
          /\ resp'.code # 200 => resp'.code = 401]_vars

\* C40 witness: Ana logged in at time 0 and then failed five times; her
\* account is locked and no login was answered since, and her token of
\* time 0 has just been admitted at GET /users/me, half an hour later.
C40_Witness ==
    /\ resp.op = "get_my_profile" /\ resp.code = 200 /\ resp.actor = Ana
    /\ resp.body.header.token = TokenAt(Ana, 0)
    /\ now = ClockStep
    /\ \A a \in AuthOf(Ana) : a.is_locked /\ a.login_attempts = LockThreshold

====
